---- MODULE Spec2Model ----
(***************************************************************************)
(* Collection compilation pipeline and collection/category API of          *)
(* SveltyCMS:                                                              *)
(*   src/routes/api/collectionCompile/compile.ts   (scan, hash gate,       *)
(*                                                  transpile, write)      *)
(*   src/routes/api/collectionCompile/+server.ts   (GET / POST triggers,   *)
(*                                                  isCompiling gate,      *)
(*                                                  cooldown)              *)
(*   src/routes/api/collections/+server.ts         (collection reads       *)
(*                                                  behind the Redis       *)
(*                                                  cache, recompile)      *)
(*   src/routes/api/user/logout/+server.ts         (logout)                *)
(* These four files are held in src/unnamed/part_001.                      *)
(*   src/routes/api/categories/+server.ts          (category tree: read,   *)
(*                                                  replace, update)       *)
(*   src/auth/types.ts                             (session stores,        *)
(*                                                  hasPermission)         *)
(*                                                                         *)
(* The server is one Node.js process: a handler runs without interruption  *)
(* from one await on I/O to the next, so every action below is one such    *)
(* run-to-completion segment (the I/O completion together with every       *)
(* promise continuation that it makes runnable).                           *)
(***************************************************************************)
EXTENDS Integers, FiniteSets, Sequences, TLC

\* ------------------------------------------------------------------ bounds
MaxRequests == 2      \* trigger requests that arrive in one behaviour
NumFiles == 2         \* collection definition files under the source root
MaxTicks == 1         \* clock advances in one behaviour
MaxEdits == 1         \* source-tree changes made from outside in one behaviour
MaxSyncDelay == 1     \* ms between two Date.now() calls of one synchronous run
MaxContent == 2       \* distinct texts a collection definition file can hold
MaxHandlers == 2      \* API requests being served at the same time
MaxWrites == 1        \* category and collection write requests in one behaviour
MaxLogouts == 2       \* logout requests that arrive in one behaviour
MaxDepth == 2         \* directory levels of the source root, the root included
MaxSessions == 2     \* privateEnv.MAX_IN_MEMORY_SESSIONS as configured
MaxSets == 3         \* calls of set on a session store
MaxPerms == 2        \* permissions that a role holds

\* ------------------------------------------------------- program constants
COMPILE_COOLDOWN == 60000
CACHE_TTL == 300

\* First clock reading of the process: lastCompileTime starts at 0 and
\* Date.now() is Unix time in ms, far more than one cooldown after 0.
StartTime == 2 * COMPILE_COOLDOWN

Req == 1..MaxRequests
Files == 1..NumFiles
Contents == 1..MaxContent
Slots == 1..MaxHandlers
Logouts == 1..MaxLogouts
\* the clock advances by just under one cooldown, or by exactly one
TickSteps == {COMPILE_COOLDOWN - 1, COMPILE_COOLDOWN}

VARIABLES
    now,              \* the system clock, Date.now()
    ticks,            \* number of clock advances so far
    edits,            \* number of outside changes of the source tree so far
    isCompiling,      \* +server.ts: let isCompiling
    lastCompileTime,  \* +server.ts: let lastCompileTime
    req,              \* the trigger requests and where each handler stands
    jobs,             \* the compileFile promises of each request's pass
    source,           \* the .ts files under COLLECTIONS_FOLDER_TS
    artifact,         \* the .js files under COLLECTIONS_FOLDER_JS
    cache,            \* compile.ts: const cache = new Map<string, string>()
    redisEnabled,     \* configuration: whether the Redis tier is switched on
    redisUp,          \* whether the Redis server answers
    redis,            \* the keys held by Redis, each with payload and ttl
    registry,         \* collectionManager: the collections and the categories
    catFile,          \* src/collections/categories.ts: the persisted tree
    catBackup,        \* the last backup taken of categories.ts
    api,              \* the API requests being served and where each handler stands
    answer,           \* the API request answered in the last step, if any
    writes,           \* number of API write requests so far
    authReady,        \* @src/databases/db: whether `auth` has been initialized
    sessions,         \* the sessions that the authentication system holds
    logout,           \* the logout requests and where each handler stands
    folder,           \* the entries of the source root, directory by directory
    listing,          \* what the last call of the source scanner returned
    memory,           \* InMemorySessionStore: sessions, in insertion order
    useRedis,         \* privateEnv.USE_REDIS
    redisInit,        \* OptionalRedisSessionStore: where initializeRedis stands
    redisSessions,    \* the sessions held by the RedisSessionStore
    calls,            \* the calls of the optional store that are awaiting Redis
    sets,             \* number of calls of set so far
    got,              \* the session store call made in the last step, if any
    role,             \* the Role that hasPermission is asked about
    asked             \* the last call of hasPermission and its result

compileVars == <<now, ticks, edits, isCompiling, lastCompileTime, req, jobs, source,
                 artifact, cache>>
apiVars == <<redisEnabled, redisUp, redis, registry, catFile, catBackup, api, answer,
            writes>>
authVars == <<authReady, sessions, logout>>
scanVars == <<folder, listing>>
\* the state outside the compilation pipeline and the collection API
sideVars == <<authReady, sessions, logout, folder, listing>>
storeVars == <<memory, useRedis, redisInit, redisSessions, calls, sets>>
permVars == <<role, asked>>
vars == <<now, ticks, edits, isCompiling, lastCompileTime, req, jobs, source,
          artifact, cache, redisEnabled, redisUp, redis, registry, catFile,
          catBackup, api, answer, writes, authReady, sessions, logout, folder,
          listing, memory, useRedis, redisInit, redisSessions, calls, sets, got,
          role, asked>>

\* --------------------------------------------------------------- file data
NoFile == [exists |-> FALSE, content |-> 0, mtime |-> 0]
NoArtifact == [exists |-> FALSE, firstLine |-> <<>>, body |-> <<>>, mtime |-> 0]
NoCode == <<>>

\* crypto.createHash('md5').update(content).digest('hex')
getContentHash(content) == <<"md5", content>>

\* getFileHash reads the file and hashes what it holds
getFileHash(ts) == getContentHash(ts.content)

\* first line of the artifact with the "// " marker removed; null if unreadable
getExistingHash(js) ==
    IF ~js.exists THEN <<"null">>
    ELSE IF Len(js.firstLine) >= 1 /\ Head(js.firstLine) = "// "
         THEN Tail(js.firstLine)
         ELSE js.firstLine

\* ts.transpileModule followed by modifyTranspiledCode
transpileModule(content) == <<"js", content>>

\* faulty variant: the memo is not kept by path
getAny(memos, f) ==
    IF \E g \in DOMAIN memos : memos[g] # NoCode
    THEN memos[CHOOSE g \in DOMAIN memos : memos[g] # NoCode]
    ELSE NoCode

\* cache.get(filePath)
get(memos, f) == memos[f]

\* transpileCode: the memoized code for the path if there is one, else a
\* fresh transpilation that is then memoized
transpileCode(content, memo) ==
    IF memo # NoCode THEN memo ELSE transpileModule(content)

\* faulty variant: a source as old as its artifact counts as newer
shouldRecompileNotOlder(ts, js) ==
    IF ~js.exists THEN TRUE
    ELSE IF ~ts.exists THEN FALSE
    ELSE getFileHash(ts) # getExistingHash(js) \/ ts.mtime >= js.mtime

\* faulty variant: only the modification times are compared
shouldRecompileByTime(ts, js) ==
    IF ~js.exists THEN TRUE
    ELSE IF ~ts.exists THEN FALSE
    ELSE ts.mtime > js.mtime

\* faulty variant: the modification times are not compared
shouldRecompileByHash(ts, js) ==
    IF ~js.exists THEN TRUE
    ELSE IF ~ts.exists THEN FALSE
    ELSE getFileHash(ts) # getExistingHash(js)

\* faulty variant: an artifact without a source is compared like any other
shouldRecompileOrphans(ts, js) ==
    IF ~js.exists THEN TRUE
    ELSE getFileHash(ts) # getExistingHash(js) \/ ts.mtime > js.mtime

shouldRecompile(ts, js) ==
    IF ~js.exists THEN TRUE
    ELSE IF ~ts.exists THEN FALSE
    ELSE getFileHash(ts) # getExistingHash(js) \/ ts.mtime > js.mtime

\* the file writeCompiledFile leaves on disk
writeCompiledFile(code, originalContent, t) ==
    [exists |-> TRUE,
     firstLine |-> <<"// ">> \o getContentHash(originalContent),
     body |-> code,
     mtime |-> t]

getTypescriptFiles(src) == {f \in Files : src[f].exists}

\* ------------------------------------------------------------ request data
\* A compileFile promise: the await it stands at, and its locals
NoJob == [stage |-> "none", content |-> 0, code |-> NoCode]
InFlight == {"check", "read", "write"}
Finished == {"skipped", "written"}

\* A trigger request: where its handler stands (pc), its force flag, and the
\* response it has sent.  The "completed" response is the one that carries
\* timestamp: currentTime.
IdleReq == [pc |-> "idle", force |-> FALSE, result |-> "none", status |-> 0,
            cause |-> "none", compiled |-> FALSE, reload |-> "none"]

Active == {"scan", "files", "reload"}

\* requests arrive in the order of their numbers
IsNext(r) == req[r].pc = "idle" /\ \A q \in Req : q < r => req[q].pc # "idle"

\* the promises of a pass that have not settled yet
Pending(js) == [f \in Files |-> IF js[f].stage \in InFlight THEN js[f] ELSE NoJob]

\* ------------------------------------- collectionManager: registry, payloads
\* the collection that the definition file f declares is named FileName[f]
FileName == <<"posts", "pages", "media", "menus">>

\* a name that no collection carries
NoSuchName == "drafts"

\* one entry of a Record<string, CategoryData>: its key in the enclosing
\* object, its own fields, and its subcategories in key order
Category(key, id, name, icon, subcategories) ==
    [key |-> key, id |-> id, name |-> name, icon |-> icon, subcategories |-> subcategories]

\* the category tree with which the process starts
InitialCategories ==
    << Category("A", 1, "a", "folder", <<>>),
       Category("B", 2, "b", "folder", << Category("C", 3, "c", "folder", <<>>) >>) >>

\* the collection descriptor that the registry builds from a compiled artifact
descriptor(f, js) ==
    [name |-> FileName[f], icon |-> "icon", path |-> FileName[f], fields |-> js.body]

RECURSIVE loadCollections(_, _)
loadCollections(f, art) ==
    IF f > NumFiles THEN <<>>
    ELSE (IF art[f].exists THEN <<descriptor(f, art[f])>> ELSE <<>>)
             \o loadCollections(f + 1, art)

\* collectionManager.updateCollections: the registry is rebuilt from the
\* compiled artifacts and the categories file
loadRegistry(art, file) == [collections |-> loadCollections(1, art), categories |-> file]

\* a response body; every body has the same three fields
Payload(kind, collections, categories) ==
    [kind |-> kind, collections |-> collections, categories |-> categories]

NoPayload == Payload("none", <<>>, <<>>)

\* ({ name, icon, path }) => ({ name, icon, path })
basic(c) == [c EXCEPT !.fields = <<>>]

\* (col) => col.name
nameOf(c) == [name |-> c.name, icon |-> "", path |-> "", fields |-> <<>>]

RECURSIVE find(_, _)
\* collections.find((c) => c.name === name), as a sequence of at most one
find(collections, name) ==
    IF collections = <<>> THEN <<>>
    ELSE IF <<Head(collections).name>> = name THEN <<Head(collections)>>
    ELSE find(Tail(collections), name)

\* what the body of a handler's try block ends with
Thrown(what) == [thrown |-> what, body |-> NoPayload]
Returned(body) == [thrown |-> "none", body |-> body]

\* collections GET, the switch on action: the response computed from the
\* registry, or what is thrown instead.  action and name are the query
\* parameters split at ':' (<<>> for a missing one); readable tells whether
\* the files under COLLECTIONS_FOLDER can be read and parsed.
collectionsResponse(action, name, reg, readable) ==
    CASE action = <<"structure">> ->
             Returned(Payload("structure", reg.collections, reg.categories))
      [] action = <<"files">> ->
             IF readable THEN Returned(Payload("files", <<>>, <<>>)) ELSE Thrown("Error")
      [] action = <<"file">> ->
             IF name = <<>> THEN Thrown("400")
             ELSE IF readable THEN Returned(Payload("file", <<>>, <<>>))
             ELSE Thrown("Error")
      [] action = <<"names">> ->
             Returned(Payload("names",
                              [i \in 1..Len(reg.collections) |-> nameOf(reg.collections[i])],
                              <<>>))
      [] action = <<"collection">> ->
             IF name = <<>> THEN Thrown("400")
             ELSE IF find(reg.collections, name) = <<>> THEN Thrown("404")
             ELSE Returned(Payload("collection", find(reg.collections, name), <<>>))
      [] OTHER ->
             Returned(Payload("default",
                              [i \in 1..Len(reg.collections) |-> basic(reg.collections[i])],
                              <<>>))

\* categories GET: { success: true, categories }
categoriesResponse(reg) == Returned(Payload("categories", <<>>, reg.categories))

\* faulty variant: the name is left out of the key
CacheKeyByAction(namespace, action, name) ==
    <<"api", namespace>> \o (IF action = <<>> THEN <<"default">> ELSE action)

\* `api:${namespace}:${action || 'default'}${name ? `:${name}` : ''}`
CacheKey(namespace, action, name) ==
    <<"api", namespace>> \o (IF action = <<>> THEN <<"default">> ELSE action) \o name

\* ------------------------------------------------ categories: tree updates
\* the updates of a PUT: the fields it names and their new values
Updates(set, id, name, icon) == [set |-> set, id |-> id, name |-> name, icon |-> icon]

NoUpdates == Updates({}, 0, "", "")

\* Object.assign(cats[key], updates)
Assign(target, updates) ==
    [fld \in DOMAIN target |-> IF fld \in updates.set THEN updates[fld] ELSE target[fld]]

\* faulty variant: only the top-level categories are searched
updateCategoryFlat(cats, categoryId, updates) ==
    IF \E i \in 1..Len(cats) : cats[i].id = categoryId
    THEN LET i == CHOOSE j \in 1..Len(cats) :
                      cats[j].id = categoryId /\ \A l \in 1..(j - 1) : cats[l].id # categoryId
         IN [found |-> TRUE, cats |-> [cats EXCEPT ![i] = Assign(cats[i], updates)]]
    ELSE [found |-> FALSE, cats |-> cats]

RECURSIVE updateCategory(_, _, _)
\* PUT, function updateCategory: the first node in depth-first order whose
\* id is categoryId receives the updates
updateCategory(cats, categoryId, updates) ==
    IF cats = <<>> THEN [found |-> FALSE, cats |-> cats]
    ELSE LET head == Head(cats)
         IN IF head.id = categoryId
            THEN [found |-> TRUE, cats |-> <<Assign(head, updates)>> \o Tail(cats)]
            ELSE LET below == updateCategory(head.subcategories, categoryId, updates)
                 IN IF below.found
                    THEN [found |-> TRUE,
                          cats |-> <<[head EXCEPT !.subcategories = below.cats]>> \o Tail(cats)]
                    ELSE LET rest == updateCategory(Tail(cats), categoryId, updates)
                         IN [found |-> rest.found, cats |-> <<head>> \o rest.cats]

\* a request body that is no object (null, a number, a string): it stands in
\* the place of a tree as one entry without fields
NotAnObject == << Category("", 0, "", "", <<>>) >>

\* faulty variant: the entries are not looked at
validateCategoryDataShallow(data) == data # NotAnObject

\* validateCategoryData: the data is an object, and every top-level entry
\* has a name and an icon
validateCategoryData(data) ==
    /\ data # NotAnObject
    /\ \A i \in 1..Len(data) : data[i].name # "" /\ data[i].icon # ""

\* ------------------------------------------------------ @src/databases/redis
\* an entry of the Redis store
NoEntry == [payload |-> NoPayload, ttl |-> 0]

EmptyStore == [k \in {} |-> NoEntry]

isRedisEnabled == redisEnabled

\* cache failures are logged inside the Redis module and read as a miss
getCache(cacheKey) ==
    IF redisUp /\ cacheKey \in DOMAIN redis THEN redis[cacheKey] ELSE NoEntry

\* GET handlers: if (cached)
IsHitAlways(cached) == TRUE      \* faulty variant: the lookup result is not tested
IsHit(cached) == cached # NoEntry

setCache(cacheKey, response, ttl) ==
    IF redisUp
    THEN [k \in DOMAIN redis \cup {cacheKey} |->
            IF k = cacheKey THEN [payload |-> response, ttl |-> ttl] ELSE redis[k]]
    ELSE redis

\* the keys that a pattern 'api:<namespace>:*' matches
Matches(k, namespace) == Len(k) > 2 /\ k[1] = "api" /\ k[2] = namespace

clearCache(namespace) ==
    IF redisUp
    THEN [k \in {j \in DOMAIN redis : ~Matches(j, namespace)} |-> redis[k]]
    ELSE redis

\* import { browser } from '$app/environment': false on the server
browser == FALSE

\* collections/+server.ts imports browser; categories/+server.ts uses the
\* identifier in its three handlers without importing or declaring it
CollectionsImportsBrowser == TRUE
CategoriesImportsBrowser == FALSE

\* --------------------------------------------------------- the API requests
IdleApi ==
    [op |-> "none", pc |-> "idle", action |-> <<>>, name |-> <<>>, categoryId |-> 0,
     updates |-> NoUpdates, data |-> <<>>, live |-> FALSE, hit |-> FALSE,
     thrown |-> "none", status |-> 0, body |-> NoPayload]

\* a request is served in the lowest slot that serves none
IsFree(s) == api[s].pc = "idle" /\ \A q \in Slots : q < s => api[q].pc # "idle"

\* the handler of slot s goes on as h: to its next await, or to its answer,
\* which frees the slot; hs are the handlers as this step leaves the others
Goes(hs, s, h) ==
    IF h.pc = "done"
    THEN api' = [hs EXCEPT ![s] = IdleApi] /\ answer' = h
    ELSE api' = [hs EXCEPT ![s] = h] /\ answer' = IdleApi

\* a call of a session store: the method, its arguments, and for a get
\* that has returned the user it returned
Call(op, id, user, seconds) == [op |-> op, id |-> id, user |-> user, seconds |-> seconds]

IdleCall == Call("none", 0, "null", 0)

\* a step that calls neither a session store nor hasPermission
NoStoreStep ==
    /\ got' = IdleCall
    /\ UNCHANGED <<storeVars, permVars>>

\* a step of the compilation pipeline or of its environment: no API
\* request moves and none is answered
NoApiStep ==
    /\ answer' = IdleApi
    /\ UNCHANGED <<redisEnabled, redisUp, redis, registry, catFile, catBackup, api, writes>>
    /\ UNCHANGED sideVars
    /\ NoStoreStep

\* return json(body)
Done(h, body) == [h EXCEPT !.pc = "done", !.status = 200, !.body = body]

\* catch (err) { ... throw error(500, ...) }
Caught(h, what) == [h EXCEPT !.pc = "done", !.status = 500, !.thrown = what]

\* updateCollections replaces the objects of the registry: a PUT that is
\* still running keeps the categories object it took from getCollectionData
Detach(hs, reg) ==
    [s \in Slots |-> IF hs[s].live
                     THEN [hs[s] EXCEPT !.live = FALSE, !.data = reg.categories]
                     ELSE hs[s]]

\* ------------------------------------------- compile.ts: the source scanner
EXCLUDED_FILES ==
    { <<"index", ".ts">>, <<"types", ".ts">>, <<"categories", ".ts">>,
      <<"CollectionManager", ".ts">> }

\* a file name is the sequence of its parts, each extension with its dot;
\* name.endsWith(suffix)
endsWith(name, suffix) == Len(name) >= 1 /\ name[Len(name)] = suffix

\* a Dirent: its name, what it is ("file", "dir", or "other" for a link or
\* a device), and for a directory its own entries in readdir order
Dirent(name, kind, entries) == [name |-> name, kind |-> kind, entries |-> entries]

\* faulty variant: subdirectories are not entered
getTypescriptFilesFlat(entries, subdir) ==
    LET keeps(e) == e.kind = "file" /\ endsWith(e.name, ".ts") /\ e.name \notin EXCLUDED_FILES
        F[i \in 0..Len(entries)] ==
            IF i = 0 THEN <<>>
            ELSE F[i - 1] \o (IF keeps(entries[i]) THEN <<subdir \o <<entries[i].name>>>> ELSE <<>>)
    IN F[Len(entries)]

RECURSIVE getTypescriptFilesOf(_, _)
\* getTypescriptFiles(folder, subdir), given the entries of folder/subdir:
\* the relative paths pushed, in the order of the loop
getTypescriptFilesOf(entries, subdir) ==
    IF entries = <<>> THEN <<>>
    ELSE LET entry == Head(entries)
             relativePath == subdir \o <<entry.name>>
         IN (IF entry.kind = "dir"
             THEN getTypescriptFilesOf(entry.entries, relativePath)
             ELSE IF /\ entry.kind = "file"
                     /\ endsWith(entry.name, ".ts")
                     /\ entry.name \notin EXCLUDED_FILES
                  THEN <<relativePath>>
                  ELSE <<>>)
            \o getTypescriptFilesOf(Tail(entries), subdir)

\* the scanner has not been called
NotScanned == [called |-> FALSE, failed |-> FALSE, files |-> <<>>]

\* ------------------------------------------------- logout/+server.ts: data
\* the session ids that the authentication system has issued
SessionIds == {"s1", "s2"}

\* what cookies.get(SESSION_COOKIE_NAME) can give: undefined, a session that
\* the system holds, or one that it has lost
CookieValues == {"none"} \cup SessionIds

\* a logout request: where its handler stands, the session cookie of the
\* request, locals.user, and the response
IdleLogout == [pc |-> "idle", session_id |-> "none", cookie |-> "none", user |-> "null",
               status |-> 0, success |-> FALSE, message |-> "none"]

\* logout requests arrive in the order of their numbers
IsNextLogout(r) == logout[r].pc = "idle" /\ \A q \in Logouts : q < r => logout[q].pc # "idle"

\* ------------------------------------------------ auth/types.ts: sessions
\* the session ids in use: one more than the in-memory store may hold
Sids == 1..(MaxSessions + 1)

\* the users that sessions are stored for; "null" stands for null
StoredUsers == {"u1", "u2"}

\* expirationInSeconds
Lifetimes == {0, 30, 60}

\* the lifetime that the optional store's callers give to every session
SessionLifetime == 30

\* an entry of this.sessions: [sessionId, { user, expiresAt }]
Entry(id, user, expiresAt) == [id |-> id, user |-> user, expiresAt |-> expiresAt]

\* Map.has and the place of a key in the insertion order of the Map
Has(m, id) == \E i \in 1..Len(m) : m[i].id = id
At(m, id) == CHOOSE i \in 1..Len(m) : m[i].id = id

\* Map.set: a new key goes to the end, a key that is present keeps its place
mapSet(m, id, entry) ==
    IF Has(m, id) THEN [m EXCEPT ![At(m, id)] = entry] ELSE Append(m, entry)

\* faulty variant: an expired session is still returned
memoryGetExpired(m, id, t) ==
    IF Has(m, id) THEN m[At(m, id)].user ELSE "null"

\* InMemorySessionStore.get at time t
memoryGet(m, id, t) ==
    IF ~Has(m, id) \/ m[At(m, id)].expiresAt < t THEN "null" ELSE m[At(m, id)].user

\* faulty variant: nothing is deleted
memoryDeleteNothing(m, id) == m

\* InMemorySessionStore.delete
memoryDelete(m, id) == SelectSeq(m, LAMBDA e : e.id # id)

\* faulty variant: sessions that expire at this very moment are removed too
cleanupUpToNow(m, t) == SelectSeq(m, LAMBDA e : ~(e.expiresAt <= t))

\* InMemorySessionStore.cleanup at time t
cleanup(m, t) == SelectSeq(m, LAMBDA e : ~(e.expiresAt < t))

RECURSIVE oldestFrom(_, _, _, _)
\* evictOldestSession, the loop from entry i on: oldestSessionId is 0 for
\* null, and then oldestTimestamp is Infinity
oldestFrom(m, i, oldestSessionId, oldestTimestamp) ==
    IF i > Len(m) THEN oldestSessionId
    ELSE IF oldestSessionId = 0 \/ m[i].expiresAt < oldestTimestamp
         THEN oldestFrom(m, i + 1, m[i].id, m[i].expiresAt)
         ELSE oldestFrom(m, i + 1, oldestSessionId, oldestTimestamp)

\* faulty variant: the session that was stored first is evicted
evictFirstSession(m) == IF m = <<>> THEN m ELSE Tail(m)

\* InMemorySessionStore.evictOldestSession
evictOldestSession(m) ==
    LET oldestSessionId == oldestFrom(m, 1, 0, 0)
    IN IF oldestSessionId # 0 THEN memoryDelete(m, oldestSessionId) ELSE m

\* InMemorySessionStore.set at time t
memorySet(m, id, user, expirationInSeconds, t) ==
    LET put == mapSet(m, id, Entry(id, user, t + expirationInSeconds * 1000))
    IN IF Len(put) > MaxSessions THEN evictOldestSession(put) ELSE put

\* RedisSessionStore: the sessions that Redis holds, by id; a session is
\* returned until its time to live has run out
NoSessions == [id \in {} |-> Entry(0, "null", 0)]

redisGet(store, id, t) ==
    IF id \notin DOMAIN store \/ store[id].expiresAt < t THEN "null" ELSE store[id].user

redisSet(store, id, user, expirationInSeconds, t) ==
    [k \in DOMAIN store \cup {id} |->
        IF k = id THEN Entry(id, user, t + expirationInSeconds * 1000) ELSE store[k]]

redisDelete(store, id) == [k \in DOMAIN store \ {id} |-> store[k]]

\* a call of the optional store takes the lowest slot that holds none
IsFreeCall(s) == calls[s] = IdleCall /\ \A q \in Slots : q < s => calls[q] # IdleCall

\* ------------------------------------------- auth/types.ts: permissions
\* export const permissions
permissions == <<"create", "read", "write", "delete">>

\* the values of Permission.contextId: 'global' and two collection ids
ContextIds == {"global", "posts", "pages"}

Permission(action, contextId) == [action |-> action, contextId |-> contextId]

\* faulty variant: the action of the permission is not compared
hasPermissionAnyAction(permissionsOfRole, action, contextId) ==
    \E i \in 1..Len(permissionsOfRole) :
        \/ permissionsOfRole[i].contextId = contextId
        \/ permissionsOfRole[i].contextId = "global"

\* hasPermission(role, action, contextId), given role.permissions
hasPermission(permissionsOfRole, action, contextId) ==
    \E i \in 1..Len(permissionsOfRole) :
        /\ permissionsOfRole[i].action = action
        /\ \/ permissionsOfRole[i].contextId = contextId
           \/ permissionsOfRole[i].contextId = "global"

NotAsked == [called |-> FALSE, action |-> "none", contextId |-> "none", result |-> FALSE]

\* no session store is in use and hasPermission has not been called
StoresUnused ==
    /\ memory = <<>>
    /\ useRedis = FALSE
    /\ redisInit = "off"
    /\ redisSessions = NoSessions
    /\ calls = [s \in Slots |-> IdleCall]
    /\ sets = 0
    /\ got = IdleCall
    /\ role = <<>>
    /\ asked = NotAsked

Init ==
    /\ now = StartTime
    /\ ticks = 0
    /\ edits = 0
    /\ isCompiling = FALSE
    /\ lastCompileTime = 0
    /\ req = [r \in Req |-> IdleReq]
    /\ jobs = [r \in Req |-> [f \in Files |-> NoJob]]
    /\ source = [f \in Files |-> [exists |-> TRUE, content |-> 1, mtime |-> StartTime]]
    /\ artifact = [f \in Files |-> NoArtifact]
    /\ cache = [f \in Files |-> NoCode]
    /\ redisEnabled = FALSE
    /\ redisUp = TRUE
    /\ redis = EmptyStore
    /\ registry = loadRegistry(artifact, InitialCategories)
    /\ catFile = InitialCategories
    /\ catBackup = <<>>
    /\ api = [s \in Slots |-> IdleApi]
    /\ answer = IdleApi
    /\ writes = 0
    /\ authReady = FALSE
    /\ sessions = SessionIds
    /\ logout = [r \in Logouts |-> IdleLogout]
    /\ folder = <<>>
    /\ listing = NotScanned
    /\ StoresUnused

\* ------------------------------------------------- +server.ts: the triggers
\* faulty variant: the in-flight guard is missing
AlreadyInProgressNever(compiling) == FALSE

\* if (isCompiling) return json({success: true, message: '... already in progress'})
AlreadyInProgress(compiling) == compiling

\* faulty variant: the cooldown comparison is the wrong way round
CooldownSkipsFlipped(forceUpdate, currentTime, last) ==
    ~forceUpdate /\ currentTime - last > COMPILE_COOLDOWN

\* faulty variant: a pass that has failed lifts the cooldown
CooldownSkipsUnlessFailed(forceUpdate, currentTime, last) ==
    /\ ~forceUpdate
    /\ currentTime - last < COMPILE_COOLDOWN
    /\ ~\E q \in Req : req[q].result = "fault"

\* if (!forceUpdate && currentTime - lastCompileTime < COMPILE_COOLDOWN)
CooldownSkips(forceUpdate, currentTime, last) ==
    ~forceUpdate /\ currentTime - last < COMPILE_COOLDOWN

\* faulty variant: handleCompilation looks at the cooldown only
ShouldCompileUnforced(forceUpdate, dateNow, last) ==
    dateNow - last > COMPILE_COOLDOWN

\* handleCompilation: if (forceUpdate || Date.now() - lastCompileTime > COMPILE_COOLDOWN)
ShouldCompile(forceUpdate, dateNow, last) ==
    forceUpdate \/ dateNow - last > COMPILE_COOLDOWN

\* collectionManager.updateCollections(forceUpdate): a full reload of the
\* registry when forced, an incremental one otherwise
updateCollections(forceUpdate) == IF forceUpdate THEN "full" ELSE "incremental"

\* faulty variant: lastCompileTime is stamped before the guards are tested
EarlyReturnStamped(r, forceUpdate, message) ==
    /\ req' = [req EXCEPT ![r] = [pc |-> "done", force |-> forceUpdate,
                                   result |-> message, status |-> 200,
                                   cause |-> "none", compiled |-> FALSE,
                                   reload |-> "none"]]
    /\ lastCompileTime' = now
    /\ UNCHANGED <<now, ticks, isCompiling>>

\* an early return of a trigger: a success result and nothing else
EarlyReturn(r, forceUpdate, message) ==
    /\ req' = [req EXCEPT ![r] = [IdleReq EXCEPT !.pc = "done", !.force = forceUpdate,
                                   !.result = message, !.status = 200]]
    /\ UNCHANGED <<now, ticks, isCompiling, lastCompileTime>>

\* isCompiling = true; lastCompileTime = currentTime; then handleCompilation
\* up to its first await: inside compile() or inside updateCollections.
\* now is the clock at the start of this run, read by the handler; d is the
\* time the run has taken when handleCompilation reads the clock again.
\* Nothing stores that second reading.
StartPass(r, forceUpdate) ==
    /\ isCompiling' = TRUE
    /\ lastCompileTime' = now
    /\ \E d \in 0..MaxSyncDelay :
          req' = [req EXCEPT ![r] =
                IF ShouldCompile(forceUpdate, now + d, now)
                THEN [IdleReq EXCEPT !.force = forceUpdate, !.pc = "scan"]
                ELSE [IdleReq EXCEPT !.force = forceUpdate, !.pc = "reload",
                                     !.reload = updateCollections(forceUpdate)]]
    /\ UNCHANGED <<now, ticks>>

\* export const GET
GET(r, forceUpdate) ==
    /\ IsNext(r)
    /\ IF AlreadyInProgress(isCompiling)
       THEN EarlyReturn(r, forceUpdate, "inProgress")
       ELSE IF CooldownSkips(forceUpdate, now, lastCompileTime)
            THEN EarlyReturn(r, forceUpdate, "cooldown")
            ELSE StartPass(r, forceUpdate)
    /\ UNCHANGED <<edits, jobs, source, artifact, cache>>
    /\ NoApiStep

\* export const POST
POST(r) ==
    /\ IsNext(r)
    /\ IF AlreadyInProgress(isCompiling)
       THEN EarlyReturn(r, TRUE, "inProgress")
       ELSE StartPass(r, TRUE)
    /\ UNCHANGED <<edits, jobs, source, artifact, cache>>
    /\ NoApiStep

\* faulty variant: the catch block does not release the gate
ThrowKeepsGate(r, cause) ==
    /\ req' = [req EXCEPT ![r].pc = "done", ![r].result = "fault",
                          ![r].status = 500, ![r].cause = cause]
    /\ UNCHANGED isCompiling

\* the catch blocks of compile, handleCompilation and the handler:
\* isCompiling = false; throw error(500, errorMessage)
Throw(r, cause) ==
    /\ req' = [req EXCEPT ![r].pc = "done", ![r].result = "fault",
                          ![r].status = 500, ![r].cause = cause]
    /\ isCompiling' = FALSE

\* compile() has returned: handleCompilation goes on to
\* await collectionManager.updateCollections(forceUpdate)
BeginReload(r) ==
    /\ req' = [req EXCEPT ![r].pc = "reload", ![r].compiled = TRUE,
                          ![r].reload = updateCollections(req[r].force)]
    /\ UNCHANGED isCompiling

\* the handler after await handleCompilation(forceUpdate):
\* isCompiling = false; return json({success: true, ..., timestamp: currentTime})
Complete(r) ==
    /\ req' = [req EXCEPT ![r].pc = "done", ![r].result = "completed",
                          ![r].status = 200]
    /\ isCompiling' = FALSE

\* updateCollections settles, one way or the other
ReloadDone(r) ==
    /\ req[r].pc = "reload"
    /\ \/ /\ Complete(r)
          /\ registry' = loadRegistry(artifact, catFile)
          /\ api' = Detach(api, registry)
       \/ /\ Throw(r, "reload")
          /\ UNCHANGED <<registry, api>>
    /\ answer' = IdleApi
    /\ jobs' = [jobs EXCEPT ![r] = Pending(jobs[r])]
    /\ UNCHANGED <<now, ticks, edits, lastCompileTime, source, artifact, cache>>
    /\ UNCHANGED <<redisEnabled, redisUp, redis, catFile, catBackup, writes>>
    /\ UNCHANGED sideVars
    /\ NoStoreStep

\* ----------------------------------------------------- compile.ts: one pass
\* Promise.all(files.map(compileFile)) rejects as soon as one promise rejects
PromiseAllRejected(js) == \E f \in Files : js[f].stage = "failed"

\* faulty variant: the promises are raced instead of all being awaited
PromiseAllResolvedAny(js) == \E f \in Files : js[f].stage \in Finished

\* and resolves once every promise has resolved
PromiseAllResolved(js) == \A f \in Files : js[f].stage \in Finished \cup {"none"}

\* faulty variant: a rejected compileFile is logged and the pass carries on
SettleSwallows(r, js) ==
    IF req[r].pc # "files"
    THEN /\ jobs' = [jobs EXCEPT ![r] = Pending(js)]
         /\ UNCHANGED <<req, isCompiling>>
    ELSE IF \A f \in Files : js[f].stage \notin InFlight
    THEN /\ jobs' = [jobs EXCEPT ![r] = js]
         /\ BeginReload(r)
    ELSE /\ jobs' = [jobs EXCEPT ![r] = js]
         /\ UNCHANGED <<req, isCompiling>>

\* What the pass of r does when one of its compileFile promises settles; js
\* is the pass's promises after that step.  A pass that has thrown already
\* is not waiting for them any more.
Settle(r, js) ==
    IF req[r].pc # "files"
    THEN /\ jobs' = [jobs EXCEPT ![r] = Pending(js)]
         /\ UNCHANGED <<req, isCompiling>>
    ELSE IF PromiseAllRejected(js)
    THEN /\ jobs' = [jobs EXCEPT ![r] = Pending(js)]
         /\ Throw(r, "compileFile")
    ELSE IF PromiseAllResolved(js)
    THEN /\ jobs' = [jobs EXCEPT ![r] = js]
         /\ BeginReload(r)
    ELSE /\ jobs' = [jobs EXCEPT ![r] = js]
         /\ UNCHANGED <<req, isCompiling>>

\* mkdir, getTypescriptFiles, createOutputDirectories (any of which can
\* throw), then every compileFile is started and runs up to the stat calls of
\* shouldRecompile
Scan(r) ==
    /\ req[r].pc = "scan"
    /\ \/ /\ Throw(r, "scan")
          /\ UNCHANGED jobs
       \/ LET found == getTypescriptFiles(source)
              js == [f \in Files |->
                       IF f \in found THEN [NoJob EXCEPT !.stage = "check"] ELSE NoJob]
          IN /\ jobs' = [jobs EXCEPT ![r] = js]
             /\ IF found = {}
                THEN BeginReload(r)
                ELSE /\ req' = [req EXCEPT ![r].pc = "files"]
                     /\ UNCHANGED isCompiling
    /\ UNCHANGED <<now, ticks, edits, lastCompileTime, source, artifact, cache>>
    /\ NoApiStep

\* compileFile: if (!(await shouldRecompile(...))) return
CheckFile(r, f) ==
    /\ jobs[r][f].stage = "check"
    /\ Settle(r, [jobs[r] EXCEPT ![f].stage =
                    IF shouldRecompile(source[f], artifact[f]) THEN "read" ELSE "skipped"])
    /\ UNCHANGED <<now, ticks, edits, lastCompileTime, source, artifact, cache>>
    /\ NoApiStep

\* compileFile: content = await fs.readFile(tsFilePath); code = await
\* transpileCode(content, tsFilePath); readFile throws if the file is gone
ReadFile(r, f) ==
    /\ jobs[r][f].stage = "read"
    /\ IF source[f].exists
       THEN LET code == transpileCode(source[f].content, get(cache, f))
            IN /\ jobs' = [jobs EXCEPT ![r][f] = [stage |-> "write",
                                                  content |-> source[f].content,
                                                  code |-> code]]
               /\ cache' = [cache EXCEPT ![f] = code]
               /\ UNCHANGED <<req, isCompiling>>
       ELSE /\ Settle(r, [jobs[r] EXCEPT ![f].stage = "failed"])
            /\ UNCHANGED cache
    /\ UNCHANGED <<now, ticks, edits, lastCompileTime, source, artifact>>
    /\ NoApiStep

\* compileFile: await writeCompiledFile(jsFilePath, code, content); mkdir and
\* writeFile can throw
WriteFile(r, f) ==
    /\ jobs[r][f].stage = "write"
    /\ \/ /\ artifact' = [artifact EXCEPT ![f] =
                   writeCompiledFile(jobs[r][f].code, jobs[r][f].content, now)]
          /\ Settle(r, [jobs[r] EXCEPT ![f] = [NoJob EXCEPT !.stage = "written"]])
       \/ /\ UNCHANGED artifact
          /\ Settle(r, [jobs[r] EXCEPT ![f] = [NoJob EXCEPT !.stage = "failed"]])
    /\ UNCHANGED <<now, ticks, edits, lastCompileTime, source, cache>>
    /\ NoApiStep

\* ------------------------------------------------------------- environment
Tick(d) ==
    /\ ticks < MaxTicks
    /\ now' = now + d
    /\ ticks' = ticks + 1
    /\ UNCHANGED <<edits, isCompiling, lastCompileTime, req, jobs, source, artifact, cache>>
    /\ NoApiStep

\* an author deletes a collection definition
DeleteSource(f) ==
    /\ edits < MaxEdits
    /\ source[f].exists
    /\ edits' = edits + 1
    /\ source' = [source EXCEPT ![f] = NoFile]
    /\ UNCHANGED <<now, ticks, isCompiling, lastCompileTime, req, jobs, artifact, cache>>
    /\ NoApiStep

\* an author saves a collection definition with another text
SaveSource(f, c) ==
    /\ edits < MaxEdits
    /\ source[f].exists
    /\ source[f].content # c
    /\ edits' = edits + 1
    /\ source' = [source EXCEPT ![f] = [exists |-> TRUE, content |-> c, mtime |-> now]]
    /\ UNCHANGED <<now, ticks, isCompiling, lastCompileTime, req, jobs, artifact, cache>>
    /\ NoApiStep

\* --------------------------------------------- collections/+server.ts: GET
\* The handler up to the first await that is followed by more work: the
\* cache lookup, and on a miss the response computed from the registry.
CollectionsGET(s, action, name, readable) ==
    /\ IsFree(s)
    /\ LET h == [IdleApi EXCEPT !.op = "collectionsGET", !.action = action, !.name = name]
           useCache == ~browser /\ isRedisEnabled
           cached == IF useCache
                     THEN getCache(CacheKey("collections", action, name))
                     ELSE NoEntry
           fresh == collectionsResponse(action, name, registry, readable)
       IN Goes(api, s,
                    IF IsHit(cached) THEN Done([h EXCEPT !.hit = TRUE], cached.payload)
                    ELSE IF fresh.thrown # "none" THEN Caught(h, fresh.thrown)
                    ELSE IF useCache THEN [h EXCEPT !.pc = "setCache", !.body = fresh.body]
                    ELSE Done(h, fresh.body))
    /\ UNCHANGED <<redisEnabled, redisUp, redis, registry, catFile, catBackup, writes>>
    /\ UNCHANGED <<compileVars, sideVars>>
    /\ NoStoreStep

\* ---------------------------------------------- categories/+server.ts: GET
CategoriesGET(s, action) ==
    /\ IsFree(s)
    /\ LET h == [IdleApi EXCEPT !.op = "categoriesGET", !.action = action]
           cached == getCache(CacheKey("categories", action, <<>>))
           fresh == categoriesResponse(registry)
       IN Goes(api, s,
                    IF ~CategoriesImportsBrowser THEN Caught(h, "ReferenceError")
                    ELSE IF ~browser /\ isRedisEnabled /\ IsHit(cached)
                    THEN Done([h EXCEPT !.hit = TRUE], cached.payload)
                    ELSE IF ~browser /\ isRedisEnabled
                    THEN [h EXCEPT !.pc = "setCache", !.body = fresh.body]
                    ELSE Done(h, fresh.body))
    /\ UNCHANGED <<redisEnabled, redisUp, redis, registry, catFile, catBackup, writes>>
    /\ UNCHANGED <<compileVars, sideVars>>
    /\ NoStoreStep

\* await setCache(cacheKey, response, CACHE_TTL); return json(response)
CacheStored(s) ==
    /\ api[s].pc = "setCache"
    /\ LET namespace == IF api[s].op = "collectionsGET" THEN "collections" ELSE "categories"
       IN redis' = setCache(CacheKey(namespace, api[s].action, api[s].name),
                            api[s].body, CACHE_TTL)
    /\ Goes(api, s, Done(api[s], api[s].body))
    /\ UNCHANGED <<redisEnabled, redisUp, registry, catFile, catBackup, writes>>
    /\ UNCHANGED <<compileVars, sideVars>>
    /\ NoStoreStep

\* --------------------------------------- categories/+server.ts: POST, PUT
CategoriesPOST(s, data) ==
    /\ IsFree(s)
    /\ writes < MaxWrites
    /\ writes' = writes + 1
    /\ LET h == [IdleApi EXCEPT !.op = "categoriesPOST", !.data = data]
       IN Goes(api, s,
                    IF validateCategoryData(data)
                    THEN [h EXCEPT !.pc = "backup"]
                    ELSE Caught(h, "Error"))
    /\ UNCHANGED <<redisEnabled, redisUp, redis, registry, catFile, catBackup>>
    /\ UNCHANGED <<compileVars, sideVars>>
    /\ NoStoreStep

CategoriesPUT(s, categoryId, updates) ==
    /\ IsFree(s)
    /\ writes < MaxWrites
    /\ writes' = writes + 1
    /\ LET h == [IdleApi EXCEPT !.op = "categoriesPUT", !.categoryId = categoryId,
                                !.updates = updates]
           updated == updateCategory(registry.categories, categoryId, updates)
       IN IF updated.found
          THEN /\ registry' = [registry EXCEPT !.categories = updated.cats]
               /\ Goes(api, s, [h EXCEPT !.pc = "backup", !.live = TRUE])
          ELSE /\ Goes(api, s, Caught(h, "404"))
               /\ UNCHANGED registry
    /\ UNCHANGED <<redisEnabled, redisUp, redis, catFile, catBackup>>
    /\ UNCHANGED <<compileVars, sideVars>>
    /\ NoStoreStep

\* the tree that the handler of slot s passes to saveCategoryFile
TreeToSave(h) == IF h.live THEN registry.categories ELSE h.data

\* await backupCategoryFiles() settles; saveCategoryFile renders the tree
BackupDone(s) ==
    /\ api[s].pc = "backup"
    /\ \/ /\ catBackup' = catFile
          /\ Goes(api, s, [api[s] EXCEPT !.pc = "save", !.live = FALSE,
                                                      !.data = TreeToSave(api[s])])
       \/ /\ Goes(api, s, Caught([api[s] EXCEPT !.live = FALSE], "Error"))
          /\ UNCHANGED catBackup
    /\ UNCHANGED <<redisEnabled, redisUp, redis, registry, catFile, writes>>
    /\ UNCHANGED <<compileVars, sideVars>>
    /\ NoStoreStep

\* await saveCategoryFile(...) settles, and the handler goes on to its cache
\* clearing
SaveDone(s) ==
    /\ api[s].pc = "save"
    /\ \/ /\ catFile' = api[s].data
          /\ Goes(api, s,
                       IF ~CategoriesImportsBrowser THEN Caught(api[s], "ReferenceError")
                       ELSE IF ~browser /\ isRedisEnabled THEN [api[s] EXCEPT !.pc = "clear"]
                       ELSE [api[s] EXCEPT !.pc = "update"])
       \/ /\ Goes(api, s, Caught(api[s], "Error"))
          /\ UNCHANGED catFile
    /\ UNCHANGED <<redisEnabled, redisUp, redis, registry, catBackup, writes>>
    /\ UNCHANGED <<compileVars, sideVars>>
    /\ NoStoreStep

\* -------------------------------------------- collections/+server.ts: POST
CollectionsPOST(s, action) ==
    /\ IsFree(s)
    /\ writes < MaxWrites
    /\ writes' = writes + 1
    /\ LET h == [IdleApi EXCEPT !.op = "collectionsPOST", !.action = action]
       IN Goes(api, s,
                    IF action # <<"recompile">> THEN Caught(h, "400")
                    ELSE IF ~browser /\ isRedisEnabled THEN [h EXCEPT !.pc = "clear"]
                    ELSE [h EXCEPT !.pc = "update"])
    /\ UNCHANGED <<redisEnabled, redisUp, redis, registry, catFile, catBackup>>
    /\ UNCHANGED <<compileVars, sideVars>>
    /\ NoStoreStep

\* await clearCache('api:collections:*') or clearCache('api:categories:*')
ClearDone(s) ==
    /\ api[s].pc = "clear"
    /\ redis' = clearCache(IF api[s].op = "collectionsPOST" THEN "collections"
                                                            ELSE "categories")
    /\ Goes(api, s, [api[s] EXCEPT !.pc = "update"])
    /\ UNCHANGED <<redisEnabled, redisUp, registry, catFile, catBackup, writes>>
    /\ UNCHANGED <<compileVars, sideVars>>
    /\ NoStoreStep

\* await collectionManager.updateCollections(true) settles
UpdateDone(s) ==
    /\ api[s].pc = "update"
    /\ \/ /\ registry' = loadRegistry(artifact, catFile)
          /\ Goes(Detach(api, registry), s,
                  Done(api[s], Payload("message", <<>>,
                                       IF api[s].op = "categoriesPUT"
                                       THEN api[s].data ELSE <<>>)))
       \/ /\ Goes(api, s, Caught(api[s], "Error"))
          /\ UNCHANGED registry
    /\ UNCHANGED <<redisEnabled, redisUp, redis, catFile, catBackup, writes>>
    /\ UNCHANGED <<compileVars, sideVars>>
    /\ NoStoreStep

\* ------------------------------------------------------ the Redis server
\* the server stops answering, or answers again
RedisFlips ==
    /\ redisEnabled
    /\ redisUp' = ~redisUp
    /\ answer' = IdleApi
    /\ UNCHANGED <<redisEnabled, redis, registry, catFile, catBackup, api, writes>>
    /\ UNCHANGED <<compileVars, sideVars>>
    /\ NoStoreStep

\* the time to live of an entry runs out
Expire(k) ==
    /\ k \in DOMAIN redis
    /\ redis' = [j \in DOMAIN redis \ {k} |-> redis[j]]
    /\ answer' = IdleApi
    /\ UNCHANGED <<redisEnabled, redisUp, registry, catFile, catBackup, api, writes>>
    /\ UNCHANGED <<compileVars, sideVars>>
    /\ NoStoreStep

\* ---------------------------------------------------- logout/+server.ts
\* the database module finishes its start-up and sets `auth`
AuthInitialized ==
    /\ ~authReady
    /\ authReady' = TRUE
    /\ UNCHANGED <<sessions, logout>>
    /\ UNCHANGED <<compileVars, apiVars, scanVars>>
    /\ NoStoreStep

\* cookies.delete(SESSION_COOKIE_NAME, { path: '/' }); locals.user = null;
\* return json({ success: true, ... })
LoggedOut(h) ==
    [h EXCEPT !.pc = "done", !.cookie = "none", !.user = "null", !.status = 200,
              !.success = TRUE, !.message = "Logged out successfully"]

\* return json({ success: false, message }, { status: 500 })
LogoutFailed(h, message) ==
    [h EXCEPT !.pc = "done", !.status = 500, !.success = FALSE, !.message = message]

\* export const POST, up to its await or its return; cookie and user are the
\* session cookie and the locals.user with which the request arrives
LogoutPOST(r, cookie, user) ==
    /\ IsNextLogout(r)
    /\ LET h == [IdleLogout EXCEPT !.session_id = cookie, !.cookie = cookie, !.user = user]
       IN logout' = [logout EXCEPT ![r] =
                        IF ~authReady THEN LogoutFailed(h, "Internal Server Error")
                        ELSE IF cookie # "none" THEN [h EXCEPT !.pc = "destroy"]
                        ELSE LoggedOut(h)]
    /\ UNCHANGED <<authReady, sessions>>
    /\ UNCHANGED <<compileVars, apiVars, scanVars>>
    /\ NoStoreStep

\* await auth.destroySession(session_id) settles: the session is gone and
\* the handler goes on, or the call rejects and the catch block answers
DestroyDone(r) ==
    /\ logout[r].pc = "destroy"
    /\ \/ /\ sessions' = sessions \ {logout[r].session_id}
          /\ logout' = [logout EXCEPT ![r] = LoggedOut(logout[r])]
       \/ /\ logout' = [logout EXCEPT ![r] = LogoutFailed(logout[r], "An error occurred during logout")]
          /\ UNCHANGED sessions
    /\ UNCHANGED authReady
    /\ UNCHANGED <<compileVars, apiVars, scanVars>>
    /\ NoStoreStep

\* --------------------------------------------- compile.ts: a scan by itself
\* const files = await getTypescriptFiles(collectionsFolderTS): the paths, or
\* the error thrown when a directory cannot be read
ScanFolder ==
    /\ ~listing.called
    /\ \/ listing' = [called |-> TRUE, failed |-> FALSE,
                      files |-> getTypescriptFilesOf(folder, <<>>)]
       \/ listing' = [called |-> TRUE, failed |-> TRUE, files |-> <<>>]
    /\ UNCHANGED folder
    /\ UNCHANGED <<compileVars, apiVars, authVars>>
    /\ NoStoreStep

\* ------------------------------------ auth/types.ts: InMemorySessionStore
\* what a step of a session store leaves alone
OnlyStores == UNCHANGED <<compileVars, apiVars, sideVars, permVars>>

\* await store.set(sessionId, user, expirationInSeconds)
MemorySet(id, user, seconds) ==
    /\ sets < MaxSets
    /\ sets' = sets + 1
    /\ memory' = memorySet(memory, id, user, seconds, now)
    /\ got' = Call("set", id, user, seconds)
    /\ UNCHANGED <<useRedis, redisInit, redisSessions, calls>>
    /\ OnlyStores

\* await store.get(sessionId)
MemoryGet(id) ==
    /\ got' = Call("get", id, memoryGet(memory, id, now), 0)
    /\ UNCHANGED storeVars
    /\ OnlyStores

\* await store.delete(sessionId)
MemoryDelete(id) ==
    /\ memory' = memoryDelete(memory, id)
    /\ got' = Call("delete", id, "null", 0)
    /\ UNCHANGED <<useRedis, redisInit, redisSessions, calls, sets>>
    /\ OnlyStores

\* setInterval(() => this.cleanup(), ...): the timer fires
Cleanup ==
    /\ memory' = cleanup(memory, now)
    /\ got' = Call("cleanup", 0, "null", 0)
    /\ UNCHANGED <<useRedis, redisInit, redisSessions, calls, sets>>
    /\ OnlyStores

\* ------------------------------- auth/types.ts: OptionalRedisSessionStore
\* initializeRedis: await import('./RedisSessionStore') settles, and
\* this.redisStore is set, or the catch block logs the failure
InitializeDone ==
    /\ redisInit = "importing"
    /\ \/ redisInit' = "ready"
       \/ redisInit' = "failed"
    /\ got' = IdleCall
    /\ UNCHANGED <<memory, useRedis, redisSessions, calls, sets>>
    /\ OnlyStores

\* this.redisStore, or null
redisStore == redisInit = "ready"

\* get: this.redisStore ? this.redisStore.get(id) : this.fallbackStore.get(id)
OptionalGet(id) ==
    /\ got' = Call("get", id,
                   IF redisStore THEN redisGet(redisSessions, id, now)
                                 ELSE memoryGet(memory, id, now),
                   0)
    /\ UNCHANGED storeVars
    /\ OnlyStores

\* set, up to its first await that waits: for Redis if there is a
\* redisStore, and otherwise the fallback store is written at once
OptionalSet(s, id, user, seconds) ==
    /\ IsFreeCall(s)
    /\ sets < MaxSets
    /\ sets' = sets + 1
    /\ IF redisStore
       THEN /\ calls' = [calls EXCEPT ![s] = Call("set", id, user, seconds)]
            /\ got' = IdleCall
            /\ UNCHANGED memory
       ELSE /\ memory' = memorySet(memory, id, user, seconds, now)
            /\ got' = Call("set", id, user, seconds)
            /\ UNCHANGED calls
    /\ UNCHANGED <<useRedis, redisInit, redisSessions>>
    /\ OnlyStores

\* await this.redisStore.set(...) settles; await this.fallbackStore.set(...)
RedisSetDone(s) ==
    /\ calls[s].op = "set"
    /\ redisSessions' = redisSet(redisSessions, calls[s].id, calls[s].user,
                                 calls[s].seconds, now)
    /\ memory' = memorySet(memory, calls[s].id, calls[s].user, calls[s].seconds, now)
    /\ calls' = [calls EXCEPT ![s] = IdleCall]
    /\ got' = calls[s]
    /\ UNCHANGED <<useRedis, redisInit, sets>>
    /\ OnlyStores

\* delete, up to its first await that waits
OptionalDelete(s, id) ==
    /\ IsFreeCall(s)
    /\ IF redisStore
       THEN /\ calls' = [calls EXCEPT ![s] = Call("delete", id, "null", 0)]
            /\ got' = IdleCall
            /\ UNCHANGED memory
       ELSE /\ memory' = memoryDelete(memory, id)
            /\ got' = Call("delete", id, "null", 0)
            /\ UNCHANGED calls
    /\ UNCHANGED <<useRedis, redisInit, redisSessions, sets>>
    /\ OnlyStores

\* await this.redisStore.delete(id) settles; await this.fallbackStore.delete(id)
RedisDeleteDone(s) ==
    /\ calls[s].op = "delete"
    /\ redisSessions' = redisDelete(redisSessions, calls[s].id)
    /\ memory' = memoryDelete(memory, calls[s].id)
    /\ calls' = [calls EXCEPT ![s] = IdleCall]
    /\ got' = calls[s]
    /\ UNCHANGED <<useRedis, redisInit, sets>>
    /\ OnlyStores

\* ------------------------------------------- auth/types.ts: hasPermission
CheckPermission(action, contextId) ==
    /\ asked' = [called |-> TRUE, action |-> action, contextId |-> contextId,
                 result |-> hasPermission(role, action, contextId)]
    /\ got' = IdleCall
    /\ UNCHANGED <<role, storeVars>>
    /\ UNCHANGED <<compileVars, apiVars, sideVars>>

\* -------------------------------------------------------- request inputs
GetParams ==
    { [action |-> <<>>, name |-> <<>>],
      [action |-> <<"structure">>, name |-> <<>>],
      [action |-> <<"collection">>, name |-> <<>>],
      [action |-> <<"collection">>, name |-> <<FileName[1]>>],
      [action |-> <<"collection">>, name |-> <<NoSuchName>>],
      [action |-> <<"file">>, name |-> <<>>] }
PostActions == {<<"recompile">>, <<"rebuild">>}
PostData ==
    { << Category("D", 4, "d", "folder", <<>>) >>,
      << Category("D", 4, "d", "", <<>>) >> }
\* further bodies: no object, an entry without a name, a nested entry
\* without a name, and a tree that uses one id twice
MorePostData ==
    { NotAnObject,
      << Category("D", 4, "", "folder", <<>>) >>,
      << Category("D", 4, "d", "folder", << Category("E", 5, "", "", <<>>) >>) >>,
      << Category("D", 4, "d", "folder", << Category("E", 4, "e", "folder", <<>>) >>) >> }
\* ids of a top-level category, of a nested one, and of none
PutIds == {1, 3, 4}
Rename == Updates({"name"}, 0, "renamed", "")
PutUpdates == { Rename, Updates({"id", "icon"}, 1, "", "star") }

\* the steps of the server
Server ==
    \/ \E r \in Req, forceUpdate \in BOOLEAN : GET(r, forceUpdate)
    \/ \E r \in Req : POST(r)
    \/ \E r \in Req : Scan(r)
    \/ \E r \in Req, f \in Files : CheckFile(r, f)
    \/ \E r \in Req, f \in Files : ReadFile(r, f)
    \/ \E r \in Req, f \in Files : WriteFile(r, f)
    \/ \E r \in Req : ReloadDone(r)

\* The orchestrator: the triggers and their passes under a running clock and
\* a source tree that loses files but is not otherwise edited.
Next ==
    \/ Server
    \/ \E d \in TickSteps : Tick(d)
    \/ \E f \in Files : DeleteSource(f)

Spec == Init /\ [][Next]_vars

\* The hash gate: the same server under a source tree whose files are also
\* edited while the process runs.
NextFiles ==
    \/ Server
    \/ \E d \in TickSteps : Tick(d)
    \/ \E f \in Files : DeleteSource(f)
    \/ \E f \in Files, c \in Contents : SaveSource(f, c)

SpecFiles == Init /\ [][NextFiles]_vars

\* The API: a process that starts with every collection compiled and the
\* registry loaded, serving collection and category requests next to one
\* non-forced compile trigger; the category updates are renamings of the
\* nested category or of none.
InitApi ==
    /\ now = StartTime
    /\ ticks = 0
    /\ edits = 0
    /\ isCompiling = FALSE
    /\ lastCompileTime = 0
    /\ req = [r \in Req |-> IdleReq]
    /\ jobs = [r \in Req |-> [f \in Files |-> NoJob]]
    /\ source = [f \in Files |-> [exists |-> TRUE, content |-> 1, mtime |-> StartTime]]
    /\ artifact = [f \in Files |-> writeCompiledFile(transpileModule(1), 1, StartTime)]
    /\ cache = [f \in Files |-> NoCode]
    /\ redisEnabled \in BOOLEAN
    /\ redisUp = TRUE
    /\ redis = EmptyStore
    /\ registry = loadRegistry(artifact, InitialCategories)
    /\ catFile = InitialCategories
    /\ catBackup = <<>>
    /\ api = [s \in Slots |-> IdleApi]
    /\ answer = IdleApi
    /\ writes = 0
    /\ authReady = FALSE
    /\ sessions = SessionIds
    /\ logout = [r \in Logouts |-> IdleLogout]
    /\ folder = <<>>
    /\ listing = NotScanned
    /\ StoresUnused

Api ==
    \/ \E s \in Slots, p \in GetParams, readable \in BOOLEAN :
          CollectionsGET(s, p.action, p.name, readable)
    \/ \E s \in Slots, p \in GetParams : CategoriesGET(s, p.action)
    \/ \E s \in Slots : CacheStored(s)
    \/ \E s \in Slots, data \in PostData : CategoriesPOST(s, data)
    \/ \E s \in Slots, categoryId \in PutIds \ {1} : CategoriesPUT(s, categoryId, Rename)
    \/ \E s \in Slots : BackupDone(s)
    \/ \E s \in Slots : SaveDone(s)
    \/ \E s \in Slots, action \in PostActions : CollectionsPOST(s, action)
    \/ \E s \in Slots : ClearDone(s)
    \/ \E s \in Slots : UpdateDone(s)

NextApi ==
    \/ Api
    \/ GET(1, FALSE)
    \/ ReloadDone(1)
    \/ RedisFlips
    \/ \E k \in DOMAIN redis : Expire(k)

SpecApi == InitApi /\ [][NextApi]_vars

\* The category tree: the same process serving category requests only, with
\* every update of the request inputs.
NextCategories ==
    \/ \E s \in Slots, p \in GetParams : CategoriesGET(s, p.action)
    \/ \E s \in Slots, data \in PostData \cup MorePostData : CategoriesPOST(s, data)
    \/ \E s \in Slots, categoryId \in PutIds, updates \in PutUpdates :
          CategoriesPUT(s, categoryId, updates)
    \/ \E s \in Slots : BackupDone(s)
    \/ \E s \in Slots : SaveDone(s)

SpecCategories == InitApi /\ [][NextCategories]_vars

\* The recompile decision: a process whose first forced trigger has scanned
\* the source root and started a compileFile for every file; the disk holds
\* what earlier runs of the program and the authors have left, and an author
\* may have removed a file since the scan.
Mtimes == {StartTime - d : d \in 0..MaxSyncDelay}
SourcesOnDisk ==
    {NoFile} \cup {[exists |-> TRUE, content |-> c, mtime |-> m] : c \in Contents, m \in Mtimes}
ArtifactsOnDisk ==
    {NoArtifact} \cup {writeCompiledFile(transpileModule(c), c, m) : c \in Contents, m \in Mtimes}

InitDecide ==
    /\ now = StartTime
    /\ ticks = 0
    /\ edits = 0
    /\ isCompiling = TRUE
    /\ lastCompileTime = StartTime
    /\ req = [r \in Req |-> IF r = 1 THEN [IdleReq EXCEPT !.force = TRUE, !.pc = "files"]
                                    ELSE IdleReq]
    /\ jobs = [r \in Req |-> [f \in Files |->
                  IF r = 1 THEN [NoJob EXCEPT !.stage = "check"] ELSE NoJob]]
    /\ source \in [Files -> SourcesOnDisk]
    /\ artifact \in [Files -> ArtifactsOnDisk]
    /\ cache = [f \in Files |-> NoCode]
    /\ redisEnabled = FALSE
    /\ redisUp = TRUE
    /\ redis = EmptyStore
    /\ registry = loadRegistry(artifact, InitialCategories)
    /\ catFile = InitialCategories
    /\ catBackup = <<>>
    /\ api = [s \in Slots |-> IdleApi]
    /\ answer = IdleApi
    /\ writes = 0
    /\ authReady = FALSE
    /\ sessions = SessionIds
    /\ logout = [r \in Logouts |-> IdleLogout]
    /\ folder = <<>>
    /\ listing = NotScanned
    /\ StoresUnused

FileWork ==
    \/ \E r \in Req, f \in Files : CheckFile(r, f)
    \/ \E r \in Req, f \in Files : ReadFile(r, f)
    \/ \E r \in Req, f \in Files : WriteFile(r, f)
    \/ \E r \in Req : ReloadDone(r)

SpecDecide == InitDecide /\ [][FileWork]_vars

\* One pass: a process whose first forced trigger has just been accepted,
\* over the same disks, with a source tree that nobody touches meanwhile.
InitPass ==
    /\ now = StartTime
    /\ ticks = 0
    /\ edits = 0
    /\ isCompiling = TRUE
    /\ lastCompileTime = StartTime
    /\ req = [r \in Req |-> IF r = 1 THEN [IdleReq EXCEPT !.force = TRUE, !.pc = "scan"]
                                    ELSE IdleReq]
    /\ jobs = [r \in Req |-> [f \in Files |-> NoJob]]
    /\ source \in [Files -> SourcesOnDisk]
    /\ artifact \in [Files -> ArtifactsOnDisk]
    /\ cache = [f \in Files |-> NoCode]
    /\ redisEnabled = FALSE
    /\ redisUp = TRUE
    /\ redis = EmptyStore
    /\ registry = loadRegistry(artifact, InitialCategories)
    /\ catFile = InitialCategories
    /\ catBackup = <<>>
    /\ api = [s \in Slots |-> IdleApi]
    /\ answer = IdleApi
    /\ writes = 0
    /\ authReady = FALSE
    /\ sessions = SessionIds
    /\ logout = [r \in Logouts |-> IdleLogout]
    /\ folder = <<>>
    /\ listing = NotScanned
    /\ StoresUnused

NextPass ==
    \/ \E r \in Req : Scan(r)
    \/ FileWork

SpecPass == InitPass /\ [][NextPass]_vars

\* The source scanner: a process that scans a source root holding any of the
\* directory trees below.
EntryNames == << <<"posts", ".ts">>, <<"index", ".ts">>, <<"posts", ".ts", ".bak">> >>

RECURSIVE Listings(_)
\* the directories of at most the given depth: under each name there is
\* nothing, a regular file, something else, or a directory
Listings(depth) ==
    LET Entries(name) ==
            {<<>>, <<Dirent(name, "file", <<>>)>>, <<Dirent(name, "other", <<>>)>>}
                \cup (IF depth = 1 THEN {}
                      ELSE {<<Dirent(name, "dir", sub)>> : sub \in Listings(depth - 1)})
    IN {a \o b \o c : a \in Entries(EntryNames[1]), b \in Entries(EntryNames[2]),
                        c \in Entries(EntryNames[3])}

InitScan ==
    /\ now = StartTime
    /\ ticks = 0
    /\ edits = 0
    /\ isCompiling = FALSE
    /\ lastCompileTime = 0
    /\ req = [r \in Req |-> IdleReq]
    /\ jobs = [r \in Req |-> [f \in Files |-> NoJob]]
    /\ source = [f \in Files |-> [exists |-> TRUE, content |-> 1, mtime |-> StartTime]]
    /\ artifact = [f \in Files |-> NoArtifact]
    /\ cache = [f \in Files |-> NoCode]
    /\ redisEnabled = FALSE
    /\ redisUp = TRUE
    /\ redis = EmptyStore
    /\ registry = loadRegistry(artifact, InitialCategories)
    /\ catFile = InitialCategories
    /\ catBackup = <<>>
    /\ api = [s \in Slots |-> IdleApi]
    /\ answer = IdleApi
    /\ writes = 0
    /\ authReady = FALSE
    /\ sessions = SessionIds
    /\ logout = [r \in Logouts |-> IdleLogout]
    /\ folder \in Listings(MaxDepth)
    /\ listing = NotScanned
    /\ StoresUnused

SpecScan == InitScan /\ [][ScanFolder]_vars

Users == {"null", "u1"}

NextLogout ==
    \/ AuthInitialized
    \/ \E r \in Logouts, cookie \in CookieValues, user \in Users : LogoutPOST(r, cookie, user)
    \/ \E r \in Logouts : DestroyDone(r)

SpecLogout == Init /\ [][NextLogout]_vars


\* The read/write race: the same process with the Redis tier switched on,
\* serving collection reads next to recompile requests.  categories.ts is
\* either the tree that the registry was loaded from or the tree that an
\* earlier category POST has saved without the registry being reloaded.
SavedCategories == << Category("D", 4, "d", "folder", <<>>) >>

InitRace ==
    /\ now = StartTime
    /\ ticks = 0
    /\ edits = 0
    /\ isCompiling = FALSE
    /\ lastCompileTime = 0
    /\ req = [r \in Req |-> IdleReq]
    /\ jobs = [r \in Req |-> [f \in Files |-> NoJob]]
    /\ source = [f \in Files |-> [exists |-> TRUE, content |-> 1, mtime |-> StartTime]]
    /\ artifact = [f \in Files |-> writeCompiledFile(transpileModule(1), 1, StartTime)]
    /\ cache = [f \in Files |-> NoCode]
    /\ redisEnabled = TRUE
    /\ redisUp = TRUE
    /\ redis = EmptyStore
    /\ registry = loadRegistry(artifact, InitialCategories)
    /\ catFile \in {InitialCategories, SavedCategories}
    /\ catBackup = <<>>
    /\ api = [s \in Slots |-> IdleApi]
    /\ answer = IdleApi
    /\ writes = 0
    /\ authReady = FALSE
    /\ sessions = SessionIds
    /\ logout = [r \in Logouts |-> IdleLogout]
    /\ folder = <<>>
    /\ listing = NotScanned
    /\ StoresUnused

\* a further request: ?action=collection:posts, without a name
MoreGetParams == { [action |-> <<"collection", FileName[1]>>, name |-> <<>>] }

NextRace ==
    \/ \E s \in Slots, p \in GetParams \cup MoreGetParams, readable \in BOOLEAN :
          CollectionsGET(s, p.action, p.name, readable)
    \/ \E s \in Slots : CacheStored(s)
    \/ \E s \in Slots, action \in PostActions : CollectionsPOST(s, action)
    \/ \E s \in Slots : ClearDone(s)
    \/ \E s \in Slots : UpdateDone(s)

SpecRace == InitRace /\ [][NextRace]_vars


\* The in-memory session store used by itself, under a running clock.
NextMemory ==
    \/ \E id \in Sids, user \in StoredUsers, seconds \in Lifetimes : MemorySet(id, user, seconds)
    \/ \E id \in Sids : MemoryGet(id)
    \/ \E id \in Sids : MemoryDelete(id)
    \/ Cleanup
    \/ \E d \in TickSteps : Tick(d)

SpecMemory == Init /\ [][NextMemory]_vars

\* the process at its start, the session stores and the roles apart
ProcessAtStart ==
    /\ now = StartTime
    /\ ticks = 0
    /\ edits = 0
    /\ isCompiling = FALSE
    /\ lastCompileTime = 0
    /\ req = [r \in Req |-> IdleReq]
    /\ jobs = [r \in Req |-> [f \in Files |-> NoJob]]
    /\ source = [f \in Files |-> [exists |-> TRUE, content |-> 1, mtime |-> StartTime]]
    /\ artifact = [f \in Files |-> NoArtifact]
    /\ cache = [f \in Files |-> NoCode]
    /\ redisEnabled = FALSE
    /\ redisUp = TRUE
    /\ redis = EmptyStore
    /\ registry = loadRegistry(artifact, InitialCategories)
    /\ catFile = InitialCategories
    /\ catBackup = <<>>
    /\ api = [s \in Slots |-> IdleApi]
    /\ answer = IdleApi
    /\ writes = 0
    /\ authReady = FALSE
    /\ sessions = SessionIds
    /\ logout = [r \in Logouts |-> IdleLogout]
    /\ folder = <<>>
    /\ listing = NotScanned

\* The optional store: new OptionalRedisSessionStore() has returned, and
\* initializeRedis has returned for a disabled Redis or awaits its import.
InitStore ==
    /\ ProcessAtStart
    /\ memory = <<>>
    /\ useRedis \in BOOLEAN
    /\ redisInit = IF useRedis THEN "importing" ELSE "off"
    /\ redisSessions = NoSessions
    /\ calls = [s \in Slots |-> IdleCall]
    /\ sets = 0
    /\ got = IdleCall
    /\ role = <<>>
    /\ asked = NotAsked

NextStore ==
    \/ InitializeDone
    \/ \E id \in Sids : OptionalGet(id)
    \/ \E s \in Slots, id \in Sids, user \in StoredUsers :
          OptionalSet(s, id, user, SessionLifetime)
    \/ \E s \in Slots : RedisSetDone(s)
    \/ \E s \in Slots, id \in Sids : OptionalDelete(s, id)
    \/ \E s \in Slots : RedisDeleteDone(s)
    \/ Cleanup
    \/ \E d \in TickSteps : Tick(d)

SpecStore == InitStore /\ [][NextStore]_vars

\* The permission check: a role with up to MaxPerms permissions is asked
\* about every action and context.
RECURSIVE Roles(_)
Roles(n) ==
    IF n = 0 THEN {<<>>}
    ELSE Roles(n - 1) \cup
         { Append(r, Permission(permissions[a], c)) :
             r \in Roles(n - 1), a \in DOMAIN permissions, c \in ContextIds }

InitPerm ==
    /\ ProcessAtStart
    /\ memory = <<>>
    /\ useRedis = FALSE
    /\ redisInit = "off"
    /\ redisSessions = NoSessions
    /\ calls = [s \in Slots |-> IdleCall]
    /\ sets = 0
    /\ got = IdleCall
    /\ role \in Roles(MaxPerms)
    /\ asked = NotAsked

NextPerm ==
    \E a \in DOMAIN permissions, contextId \in ContextIds :
        CheckPermission(permissions[a], contextId)

SpecPerm == InitPerm /\ [][NextPerm]_vars


\* ================================================================ properties
ActiveReqs == {r \in Req : req[r].pc \in Active}

\* the step in which the trigger r arrives and its handler runs to its
\* first await or to its return
Arrives(r) == req[r].pc = "idle" /\ req'[r].pc # "idle"

\* r is answered with a success result that carries the given message
Answered(r, message) ==
    /\ req'[r].pc = "done"
    /\ req'[r].result = message
    /\ req'[r].status = 200

\* a compileFile promise of r rejects in this step
JobFails(r, f) ==
    /\ jobs[r][f].stage \in InFlight
    /\ jobs'[r][f].stage \in {"none", "failed"}

\* C1: at most one trigger handler is inside a pass at any time; a trigger
\* that arrives while another handler is inside its pass is answered
\* 'Compilation already in progress' and starts no file work.
C1_OnePassAtATime ==
    [][ /\ Cardinality({r \in Req : req'[r].pc \in Active}) <= 1
        /\ \A r \in Req :
              Arrives(r) /\ ActiveReqs # {}
              => /\ Answered(r, "inProgress")
                 /\ jobs' = jobs
                 /\ artifact' = artifact ]_vars

C1_Witness ==
    \E r, q \in Req :
        /\ req[r].pc = "files"
        /\ \E f \in Files : jobs[r][f].stage = "write"
        /\ req[q].result = "inProgress"

\* C2 (as claimed): a non-forced trigger that passes the gate and the
\* cooldown test runs the compile phase before the registry reload, and
\* reports a completed pass only after having run it.
C2_NonForcedPassCompiles ==
    \A r \in Req :
        ~req[r].force /\ (req[r].pc = "reload" \/ req[r].result = "completed")
        => req[r].compiled

\* C3: isCompiling is false again whenever a pass ends, by success or by any
\* throw; it is true only while a handler is inside a pass; and a forced
\* trigger that arrives when no pass is running, also after a failed pass,
\* starts a new pass.
C3_GateReleased ==
    [][ /\ \A r \in Req :
              req[r].pc \in Active /\ req'[r].pc = "done" => ~isCompiling'
        /\ isCompiling' => \E r \in Req : req'[r].pc \in Active
        /\ \A r \in Req :
              Arrives(r) /\ req'[r].force /\ ActiveReqs = {}
              => req'[r].pc \in Active /\ isCompiling' ]_vars

C3_Witness ==
    \E r, q \in Req :
        /\ req[r].result = "fault"
        /\ r < q
        /\ req[q].force
        /\ req[q].pc = "scan"
        /\ isCompiling

\* C4 (as claimed): whenever isCompiling is false, no per-file read,
\* transpile or write of any pass is still in flight.
C4_GateCoversFileWork ==
    ~isCompiling => \A r \in Req, f \in Files : jobs[r][f].stage \notin InFlight

\* C5: a trigger, forced or not, that arrives while isCompiling is true gets
\* the success result 'already in progress' and leaves isCompiling and
\* lastCompileTime as they were.
C5_RejectedWhileCompiling ==
    [][ \A r \in Req :
           Arrives(r) /\ isCompiling
           => /\ Answered(r, "inProgress")
              /\ isCompiling' = isCompiling
              /\ lastCompileTime' = lastCompileTime ]_vars

C5_Witness ==
    \E r, q \in Req :
        /\ req[r].pc \in Active
        /\ req[q].result = "inProgress"
        /\ req[q].force
        /\ isCompiling
        /\ lastCompileTime < now

\* C6: a non-forced trigger that arrives less than the cooldown after
\* lastCompileTime, with isCompiling false, gets the success result 'skipped
\* due to cooldown', starts no scan, file work or registry reload, and leaves
\* lastCompileTime and isCompiling unchanged.
C6_CooldownSkip ==
    [][ \A r \in Req :
           /\ Arrives(r) /\ ~isCompiling /\ ~req'[r].force
              /\ now - lastCompileTime < COMPILE_COOLDOWN
              => /\ Answered(r, "cooldown")
                 /\ ~req'[r].compiled /\ req'[r].reload = "none"
                 /\ jobs' = jobs /\ artifact' = artifact
                 /\ isCompiling' = isCompiling
                 /\ lastCompileTime' = lastCompileTime
           /\ req[r].result = "cooldown" => req'[r] = req[r] /\ jobs'[r] = jobs[r] ]_vars

C6_Witness ==
    \E r, q \in Req :
        /\ req[r].result = "completed"
        /\ req[q].result = "cooldown"
        /\ now - lastCompileTime = COMPILE_COOLDOWN - 1

\* C7: a forced trigger (POST, or GET with force=true) is rejected as
\* 'already in progress' when isCompiling is true; otherwise, whatever
\* lastCompileTime is, it sets isCompiling and sets lastCompileTime to the
\* trigger time and enters the compile phase, and a forced pass reaches the
\* registry reload only with the compile phase done.
C7_ForcedBypassesCooldown ==
    [][ \A r \in Req :
           /\ Arrives(r) /\ req'[r].force
              => IF isCompiling
                 THEN Answered(r, "inProgress")
                 ELSE /\ req'[r].pc = "scan"
                      /\ isCompiling'
                      /\ lastCompileTime' = now
           /\ req'[r].force /\ req'[r].pc = "reload" => req'[r].compiled ]_vars

C7_Witness ==
    \E r, q \in Req :
        /\ r < q
        /\ req[r].result = "completed"
        /\ req[q].force
        /\ req[q].pc = "reload"
        /\ req[q].compiled
        /\ now - lastCompileTime < COMPILE_COOLDOWN

\* C8: when the compile step of one file of a running pass fails, the pass
\* fails: the trigger is answered with a 500 fault that carries the compile
\* error, not with a success result, and the registry reload is not run in
\* that pass.
C8_FileFailureFailsPass ==
    [][ \A r \in Req :
           /\ (req[r].pc = "files" /\ \E f \in Files : JobFails(r, f))
              => /\ req'[r].pc = "done"
                 /\ req'[r].result = "fault"
                 /\ req'[r].status = 500
                 /\ req'[r].cause = "compileFile"
                 /\ req'[r].reload = "none"
           /\ req[r].result = "fault" => req'[r] = req[r] ]_vars

C8_Witness ==
    \E r \in Req :
        /\ req[r].result = "fault"
        /\ req[r].cause = "compileFile"
        /\ req[r].reload = "none"
        /\ \E f \in Files : artifact[f].exists

\* C9: the registry reload of a pass is running only when the compile step
\* of every source file the pass discovered has finished (skipped or
\* written).
C9_ReloadAfterAllFiles ==
    \A r \in Req :
        req[r].pc = "reload" \/ req[r].reload # "none"
        => \A f \in Files : jobs[r][f].stage \notin InFlight \cup {"failed"}

C9_Witness ==
    \E r \in Req :
        /\ req[r].pc = "reload"
        /\ req[r].compiled
        /\ \A f \in Files : jobs[r][f].stage \in Finished
        /\ \E f \in Files : jobs[r][f].stage = "written"

\* C10 (as claimed): whenever a trigger has reported a completed pass, every
\* source file the scanner would enumerate has an artifact.
C10_CompletedMeansArtifacts ==
    \A r \in Req :
        req[r].result = "completed"
        => \A f \in getTypescriptFiles(source) : artifact[f].exists

\* the artifact of f is what a pass writes from the text that f holds now,
\* and f has not been saved since
WrittenFromSource(f) ==
    /\ source[f].exists
    /\ artifact[f].exists
    /\ artifact[f] = writeCompiledFile(artifact[f].body, source[f].content, artifact[f].mtime)
    /\ source[f].mtime <= artifact[f].mtime

\* the compileFile of r for f returns from shouldRecompile in this step
Decides(r, f) == jobs[r][f].stage = "check" /\ jobs'[r][f].stage # "check"

HashChanged(f) ==
    /\ source[f].exists
    /\ artifact[f].exists
    /\ getFileHash(source[f]) # getExistingHash(artifact[f])

\* the compileFile of r for f returns from writeCompiledFile in this step
Writes(r, f) == jobs[r][f].stage = "write" /\ jobs'[r][f].stage # "write"

\* C12: a compileFile that finds the hash of the source of f different from
\* the hash in the first line of the artifact goes on to recompile; it
\* compiles the text that f holds when it reads it; and the artifact that it
\* writes carries, in its first line, the hash of that text.
C12_ChangedSourceRewritten ==
    [][\A r \in Req, f \in Files :
          /\ Decides(r, f) /\ HashChanged(f) => jobs'[r][f].stage = "read"
          /\ jobs[r][f].stage = "read" /\ jobs'[r][f].stage = "write" =>
                 jobs'[r][f].content = source[f].content
          /\ Writes(r, f) /\ artifact'[f] # artifact[f] =>
                 getExistingHash(artifact'[f]) = getContentHash(jobs[r][f].content)]_vars

C12_Witness ==
    \E r \in Req, f \in Files :
        /\ jobs[r][f].stage = "write"
        /\ HashChanged(f)
        /\ jobs[r][f].content = source[f].content

\* C13: the code body of every artifact is the transpilation of the very
\* text whose hash stands in the artifact's first line.
C13_BodyOfHashedContent ==
    \A f \in Files :
        artifact[f].exists =>
            \E c \in Contents :
                artifact[f] = writeCompiledFile(transpileModule(c), c, artifact[f].mtime)

\* --------------------------------------------------- cache and API properties
CategoryWrites == {"categoriesPOST", "categoriesPUT"}
Reads == {"collectionsGET", "categoriesGET"}

\* no category write is being served
NoCategoryWriteRunning == \A s \in Slots : api[s].op \notin CategoryWrites

\* what the handler of the read h computes from the registry as it is now
Fresh(h) ==
    IF h.op = "collectionsGET"
    THEN collectionsResponse(h.action, h.name, registry, TRUE)
    ELSE categoriesResponse(registry)

\* C14: a read that is served from the cache when every category write so
\* far has returned, and the tree of the registry is the persisted one,
\* carries the categories that the registry holds now.
C14_ReadAfterCategoryWrite ==
    /\ answer.pc = "done"
    /\ answer.op \in Reads
    /\ answer.hit
    /\ answer.body.kind \in {"structure", "categories"}
    /\ NoCategoryWriteRunning
    /\ catFile = registry.categories
    => answer.body.categories = registry.categories

\* a cached response in store that differs from what reg holds
Stale(store, reg) ==
    \E k \in DOMAIN store :
        \/ /\ store[k].payload.kind \in {"structure", "categories"}
           /\ store[k].payload.categories # reg.categories
        \/ /\ store[k].payload.kind = "structure"
           /\ store[k].payload.collections # reg.collections

\* an operation that changes the registry returns in this step: a category
\* write, a collections POST, or a compile trigger that has reloaded
WriterReturns ==
    \/ answer'.pc = "done" /\ answer'.op \in CategoryWrites \cup {"collectionsPOST"}
    \/ \E r \in Req : req[r].pc = "reload" /\ req'[r].pc = "done" /\ req'[r].status = 200

\* C15: when an operation that changes the registry returns and no other
\* such operation is running, the cache holds no response that differs from
\* the registry.
C15_WritersInvalidate ==
    [][(/\ WriterReturns
        /\ \A s \in Slots : api'[s].op \notin CategoryWrites \cup {"collectionsPOST"}
        /\ \A r \in Req : req'[r].pc \notin Active)
       => ~Stale(redis', registry')]_vars

\* C16: with the Redis tier switched off, every read that asks for something
\* the registry can give is answered 200 with the response computed from
\* the registry, and the cache is neither read nor written.
C16_DisabledTierBypassed ==
    /\ ~redisEnabled
    /\ answer.pc = "done"
    /\ answer.op \in Reads
    /\ Fresh(answer).thrown = "none"
    => /\ answer.status = 200
       /\ ~answer.hit
       /\ answer.body = Fresh(answer).body
       /\ redis = EmptyStore

\* a request begins in slot s in this step: its handler reaches an await, or
\* it is answered at once
Begins(s) ==
    /\ IsFree(s)
    /\ api'[s].pc # "idle" \/ (api' = api /\ answer'.pc = "done")

\* the handler that began in slot s in this step, as the step leaves it
Begun(s) == IF api'[s].pc = "idle" THEN answer' ELSE api'[s]

ReadBegins(s) == Begins(s) /\ Begun(s).op \in Reads

\* what a request running with the tier switched off is answered
Uncached(h, fresh) ==
    IF h.op = "categoriesGET" /\ ~CategoriesImportsBrowser THEN Caught(h, "ReferenceError")
    ELSE IF fresh.thrown # "none" THEN Caught(h, fresh.thrown)
    ELSE Done(h, fresh.body)

C18_CollectionByName ==
    /\ answer.pc = "done"
    /\ answer.op = "collectionsGET"
    /\ answer.action = <<"collection">>
    /\ answer.name # <<>>
    /\ ~answer.hit
    => IF find(registry.collections, answer.name) = <<>>
       THEN answer.status = 404
       ELSE answer.status = 200 /\ answer.body.collections = find(registry.collections, answer.name)

\* C19: a collections read with action=file or action=collection and no
\* name is answered with a 4xx status.
C19_MissingNameIsClientFault ==
    /\ answer.pc = "done"
    /\ answer.op = "collectionsGET"
    /\ answer.action \in {<<"file">>, <<"collection">>}
    /\ answer.name = <<>>
    => answer.status \in 400..499

RECURSIVE Nodes(_, _)
\* the nodes of a category tree in depth-first order, each with its path of
\* keys and its own fields
Nodes(cats, prefix) ==
    IF cats = <<>> THEN <<>>
    ELSE LET head == Head(cats)
             path == prefix \o <<head.key>>
         IN <<[path |-> path, id |-> head.id, name |-> head.name, icon |-> head.icon]>>
                \o Nodes(head.subcategories, path) \o Nodes(Tail(cats), prefix)

\* node n with the fields that updates names replaced
Updated(n, updates) ==
    [path |-> n.path,
     id |-> IF "id" \in updates.set THEN updates.id ELSE n.id,
     name |-> IF "name" \in updates.set THEN updates.name ELSE n.name,
     icon |-> IF "icon" \in updates.set THEN updates.icon ELSE n.icon]

\* the tree holds a node whose fields named in the updates of the PUT h
\* have the values of those updates
Carries(tree, h) ==
    \E i \in 1..Len(Nodes(tree, <<>>)) :
        Nodes(tree, <<>>)[i] = Updated(Nodes(tree, <<>>)[i], h.updates)

\* C20: a category PUT for an id that the tree holds changes, in the tree of
\* the registry, the first node with that id in depth-first order and no
\* other: that node takes the values of the fields named in the updates
\* and keeps its other fields, its place and its subcategories.  When the
\* handler has passed saveCategoryFile, categories.ts holds the whole tree
\* that the handler updated, as that tree stands when the backup is taken
\* (the updates of other PUTs on it included), and the backup that precedes
\* it holds the file as it was.
C20_PutUpdatesOneNode ==
    [][/\ \A s \in Slots :
             Begins(s) /\ Begun(s).op = "categoriesPUT" =>
                LET old == Nodes(registry.categories, <<>>)
                    new == Nodes(registry'.categories, <<>>)
                    h == Begun(s)
                IN (\E i \in 1..Len(old) : old[i].id = h.categoryId) =>
                      /\ h.pc = "backup"
                      /\ Len(new) = Len(old)
                      /\ \E i \in 1..Len(old) :
                            /\ old[i].id = h.categoryId
                            /\ \A j \in 1..(i - 1) : old[j].id # h.categoryId
                            /\ new[i] = Updated(old[i], h.updates)
                            /\ \A j \in 1..Len(old) : j # i => new[j] = old[j]
       /\ \A s \in Slots :
             api[s].op = "categoriesPUT" /\ api[s].pc = "backup" /\ api'[s].pc = "save" =>
                /\ catBackup' = catFile
                /\ catFile' = catFile
                /\ Carries(api'[s].data, api[s])
                /\ api'[s].data = IF api[s].live THEN registry.categories ELSE api[s].data
                /\ Len(Nodes(api'[s].data, <<>>)) = Len(Nodes(InitialCategories, <<>>))
       /\ \A s \in Slots :
             /\ api[s].op = "categoriesPUT" /\ api[s].pc = "save" /\ api'[s].pc # "save"
             /\ answer'.thrown # "Error"
             => catFile' = api[s].data]_vars

C20_Witness ==
    /\ answer.pc = "done"
    /\ answer.op = "categoriesPUT"
    /\ answer.categoryId = 3
    /\ answer.thrown = "ReferenceError"
    /\ catFile = answer.data
    /\ catFile = registry.categories
    /\ catFile # InitialCategories

\* a POST body that validation must refuse: no object, or a top-level entry
\* without a name or without an icon
Refused(data) ==
    \/ data = NotAnObject
    \/ \E i \in 1..Len(data) : data[i].name = "" \/ data[i].icon = ""

\* C21: a category POST validates its body before anything else: a refused
\* body is answered with a fault at once, and no backup, file write, cache
\* clear or registry reload is made for it.  An accepted body goes to the
\* backup first; the backup takes the file as it is then; and categories.ts
\* is only ever overwritten by a handler that has its backup behind it, with
\* the whole tree that the handler holds.
C21_PostValidatesBacksUpThenWrites ==
    [][/\ \A s \in Slots :
             Begins(s) /\ Begun(s).op = "categoriesPOST" =>
                /\ catBackup' = catBackup
                /\ catFile' = catFile
                /\ redis' = redis
                /\ registry' = registry
                /\ IF Refused(Begun(s).data)
                   THEN Begun(s).pc = "done" /\ Begun(s).status = 500
                   ELSE Begun(s).pc = "backup"
       /\ \A s \in Slots :
             api'[s].pc = "save" /\ api[s].pc # "save" =>
                /\ api[s].pc = "backup"
                /\ catBackup' = catFile
                /\ catFile' = catFile
                /\ api[s].op = "categoriesPOST" => api'[s].data = api[s].data
       /\ \A s \in Slots :
             api[s].op = "categoriesPOST" /\ api[s].pc = "backup" /\ api'[s].pc = "idle" =>
                /\ answer'.status = 500
                /\ catBackup' = catBackup
                /\ catFile' = catFile
       /\ catFile' # catFile =>
             \E s \in Slots :
                /\ api[s].pc = "save"
                /\ api'[s].pc # "save"
                /\ catFile' = api[s].data
       /\ \A s \in Slots :
             api'[s].op = "categoriesPOST" => ~Refused(api'[s].data)]_vars

C21_Witness ==
    /\ answer.pc = "done"
    /\ answer.op = "categoriesPOST"
    /\ answer.thrown = "ReferenceError"
    /\ catFile = answer.data
    /\ catFile # InitialCategories
    /\ catBackup = InitialCategories

RECURSIVE Ids(_)
\* the ids of the nodes of a category tree, in depth-first order
Ids(cats) ==
    IF cats = <<>> THEN <<>>
    ELSE <<Head(cats).id>> \o Ids(Head(cats).subcategories) \o Ids(Tail(cats))

\* C22 (as claimed): the ids of the persisted category tree are pairwise
\* distinct, whatever category POSTs and PUTs have been served.
C22_PersistedIdsDistinct ==
    \A i, j \in 1..Len(Ids(catFile)) : i # j => Ids(catFile)[i] # Ids(catFile)[j]

\* C23 (as claimed): a logout request that was handled with the
\* authentication system initialized has cleared the session cookie and set
\* locals.user to null, with or without a session cookie.
C23_LogoutClearsCookieAndUser ==
    \A r \in Logouts :
        logout[r].pc = "done" /\ logout[r].message # "Internal Server Error"
        => logout[r].cookie = "none" /\ logout[r].user = "null"

\* the string on the first line of an artifact after the "// " marker
HashLine(js) == Tail(js.firstLine)

\* C24: shouldRecompile answers true when there is no artifact, with or
\* without a source; false when there is an artifact and no source; and
\* otherwise true exactly when the hash of the text that the source holds
\* differs from the string after the marker on the artifact's first line,
\* or the source was modified later than the artifact.
C24_RecompileDecision ==
    [][\A r \in Req, f \in Files :
          Decides(r, f) =>
             LET ts == source[f]
                 js == artifact[f]
                 recompile == jobs'[r][f].stage = "read"
             IN /\ jobs'[r][f].stage \in {"read", "skipped", "none"}
                /\ ~js.exists => recompile
                /\ js.exists /\ ~ts.exists => ~recompile
                /\ js.exists /\ ts.exists =>
                      (recompile <=> (\/ getContentHash(ts.content) # HashLine(js)
                                      \/ ts.mtime > js.mtime))]_vars

C24_Witness ==
    \E f \in Files :
        /\ jobs[1][f].stage = "read"
        /\ source[f].exists
        /\ artifact[f].exists
        /\ getContentHash(source[f].content) = HashLine(artifact[f])
        /\ source[f].mtime > artifact[f].mtime

RECURSIVE RegularFiles(_, _)
\* the relative paths of the regular files under a directory, at any depth
RegularFiles(entries, subdir) ==
    UNION { IF entries[i].kind = "dir"
            THEN RegularFiles(entries[i].entries, subdir \o <<entries[i].name>>)
            ELSE IF entries[i].kind = "file" THEN {subdir \o <<entries[i].name>>}
            ELSE {} : i \in 1..Len(entries) }

\* the last part of a path
BaseName(path) == path[Len(path)]

Reserved ==
    { <<"index", ".ts">>, <<"types", ".ts">>, <<"categories", ".ts">>,
      <<"CollectionManager", ".ts">> }

\* C25: a scan that returns gives exactly the relative paths of the regular
\* files under the source root, at any depth, whose name ends in .ts and is
\* not a reserved name, each of them once; and the scan leaves the source
\* root as it is.
C25_ScannerSelects ==
    [][~listing.called /\ listing'.called =>
          /\ folder' = folder
          /\ ~listing'.failed =>
                /\ {listing'.files[i] : i \in 1..Len(listing'.files)}
                      = {p \in RegularFiles(folder, <<>>) :
                            /\ BaseName(p)[Len(BaseName(p))] = ".ts"
                            /\ BaseName(p) \notin Reserved}
                /\ \A i, j \in 1..Len(listing'.files) :
                      i # j => listing'.files[i] # listing'.files[j]]_vars

C25_Witness ==
    /\ listing.called
    /\ ~listing.failed
    /\ \E i \in 1..Len(listing.files) : Len(listing.files[i]) = MaxDepth
    /\ \E i \in 1..Len(listing.files) : Len(listing.files[i]) = 1
    /\ \E p \in RegularFiles(folder, <<>>) : Len(p) = MaxDepth /\ BaseName(p) \in Reserved
    /\ \E p \in RegularFiles(folder, <<>>) : BaseName(p)[Len(BaseName(p))] # ".ts"

\* no compileFile of any pass stands before its write of the artifact of f
NoWriteUnderWay(f) == \A r \in Req : jobs[r][f].stage # "write"

\* C26: no step removes an artifact.  A compileFile that finds the source
\* of its file gone and the artifact there returns without reading or
\* writing.  And once the source of f is deleted and no write of f that was
\* under way at the deletion is left, the artifact of f keeps its content
\* and its modification time through every later pass.
C26_ArtifactsNeverPruned ==
    [][\A f \in Files :
          /\ artifact[f].exists => artifact'[f].exists
          /\ \A r \in Req :
                Decides(r, f) /\ ~source[f].exists /\ artifact[f].exists =>
                   /\ jobs'[r][f].stage \notin {"read", "write"}
                   /\ artifact'[f] = artifact[f]
          /\ ~source[f].exists /\ NoWriteUnderWay(f) =>
                /\ artifact'[f] = artifact[f]
                /\ \A r \in Req : jobs'[r][f].stage # "write"]_vars

C26_Witness ==
    \E r \in Req, f \in Files :
        /\ req[r].pc = "reload"
        /\ req[r].compiled
        /\ jobs[r][f].stage = "none"
        /\ ~source[f].exists
        /\ artifact[f].exists

\* a compileFile of r for f takes a step
FileStep(r, f) == jobs[r][f].stage \in InFlight /\ jobs'[r][f] # jobs[r][f]

\* C27: the steps of the compileFile of one file leave the artifact, the
\* memo and the running compileFile of every other file alone, so the steps
\* of distinct files can be taken in any order; and when the file work of
\* the first pass of a process is done, whichever order was taken, the
\* artifact of every source file carries the hash of the text of that file
\* above the transpilation of that text, and the artifacts without a
\* source are as they were.
C27_FilesIndependent ==
    [][/\ \A r \in Req, f \in Files :
             FileStep(r, f) =>
                \A g \in Files \ {f} :
                   /\ artifact'[g] = artifact[g]
                   /\ cache'[g] = cache[g]
                   /\ \A q \in Req : jobs[q][g].stage \in InFlight => jobs'[q][g] = jobs[q][g]
       /\ \A f \in Files : ~source[f].exists => artifact'[f] = artifact[f]
       /\ req'[1].pc = "reload" /\ req'[1].compiled =>
             \A f \in Files :
                source[f].exists =>
                   /\ artifact'[f].exists
                   /\ artifact'[f].firstLine = <<"// ">> \o getContentHash(source[f].content)
                   /\ artifact'[f].body = transpileModule(source[f].content)]_vars

C27_Witness ==
    /\ req[1].pc = "reload"
    /\ req[1].compiled
    /\ \A f \in Files : jobs[1][f].stage = "written"
    /\ \E f, g \in Files : source[f].content # source[g].content

\* 'api:collections:<action or default>[:<name>]'
CollectionsKey(h) ==
    <<"api", "collections">> \o (IF h.action = <<>> THEN <<"default">> ELSE h.action) \o h.name

\* C28: with the Redis tier switched on, a collections read looks up the
\* key 'api:collections:<action or default>[:<name>]'.  If Redis holds the
\* key, the read is answered 200 with the payload stored there, whatever
\* the registry holds.  If not, the response is computed from the registry
\* and, when Redis takes the write, stored under that same key with a time
\* to live of 300 seconds, all other keys being left alone, and the read is
\* answered with it.  A read that is answered with a fault changes nothing
\* in Redis.
C28_ReadThroughCache ==
    [][/\ \A s \in Slots :
             redisEnabled /\ Begins(s) /\ Begun(s).op = "collectionsGET" =>
                LET h == Begun(s)
                    key == CollectionsKey(h)
                IN /\ redis' = redis
                   /\ IF redisUp /\ key \in DOMAIN redis
                      THEN /\ h.pc = "done"
                           /\ h.hit
                           /\ h.status = 200
                           /\ h.body = redis[key].payload
                      ELSE IF Fresh(h).thrown # "none"
                      THEN h.pc = "done" /\ h.status >= 400
                      ELSE /\ h.pc = "setCache"
                           /\ ~h.hit
                           /\ h.body = Fresh(h).body
       /\ \A s \in Slots :
             api[s].op = "collectionsGET" /\ api[s].pc = "setCache" /\ api'[s].pc # "setCache" =>
                LET key == CollectionsKey(api[s])
                IN /\ answer'.pc = "done"
                   /\ answer'.status = 200
                   /\ answer'.body = api[s].body
                   /\ redisUp =>
                         /\ DOMAIN redis' = DOMAIN redis \cup {key}
                         /\ redis'[key] = [payload |-> api[s].body, ttl |-> 300]
                         /\ \A k \in DOMAIN redis \ {key} : redis'[k] = redis[k]
       /\ answer'.pc = "done" /\ answer'.op = "collectionsGET" /\ answer'.status # 200 =>
             redis' = redis]_vars

C28_Witness ==
    /\ redisEnabled
    /\ redisUp
    /\ answer.pc = "done"
    /\ answer.op = "collectionsGET"
    /\ answer.hit
    /\ answer.body = redis[CollectionsKey(answer)].payload
    /\ redis[CollectionsKey(answer)].ttl = 300
    /\ answer.body # Fresh(answer).body

\* C29 (as claimed): a category PUT whose categoryId is the id of no node
\* is answered with a not-found fault (404), and it changes no node, takes
\* no backup, leaves categories.ts and the cache alone and reloads nothing.
C29_PutUnknownIdNotFound ==
    [][\A s \in Slots :
          /\ Begins(s)
          /\ Begun(s).op = "categoriesPUT"
          /\ \A i \in 1..Len(Ids(registry.categories)) :
                Ids(registry.categories)[i] # Begun(s).categoryId
          => /\ Begun(s).pc = "done"
             /\ Begun(s).status = 404
             /\ registry' = registry
             /\ catBackup' = catBackup
             /\ catFile' = catFile
             /\ redis' = redis]_vars

\* the last pass begun before the trigger r arrives has failed
LastPassFailed(r) ==
    \E q \in Req :
        /\ q < r
        /\ req[q].result = "fault"
        /\ \A j \in Req : q < j /\ j < r => req[j].result \in {"cooldown", "inProgress"}

\* C30: lastCompileTime changes only when a trigger is accepted, to the time
\* of that trigger, and the failure of the pass leaves it there.  So after
\* a failed pass a non-forced trigger that arrives less than the cooldown
\* after the failed trigger is answered 'skipped due to cooldown' and
\* starts nothing, and a forced trigger is accepted.
C30_FailedPassKeepsStamp ==
    [][/\ lastCompileTime' # lastCompileTime =>
             \E r \in Req : Arrives(r) /\ req'[r].pc \in Active /\ lastCompileTime' = now
       /\ \A r \in Req :
             req[r].pc \in Active /\ req'[r].result = "fault" =>
                lastCompileTime' = lastCompileTime
       /\ \A r \in Req :
             Arrives(r) /\ LastPassFailed(r) /\ ~isCompiling =>
                IF req'[r].force
                THEN req'[r].pc \in Active /\ isCompiling' /\ lastCompileTime' = now
                ELSE now - lastCompileTime < COMPILE_COOLDOWN =>
                        /\ Answered(r, "cooldown")
                        /\ jobs' = jobs
                        /\ lastCompileTime' = lastCompileTime]_vars

C30_Witness ==
    \E q, r \in Req :
        /\ q < r
        /\ req[q].result = "fault"
        /\ req[r].result = "cooldown"
        /\ ~req[r].force
        /\ ~isCompiling
        /\ lastCompileTime < now

\* ------------------------------------------------------- reads beside writes
ApiWrites == CategoryWrites \cup {"collectionsPOST"}

\* C31 (as claimed): with the cache switched on, once a write has returned
\* and no write is being served, no cache entry holds a payload that was
\* computed from the registry as it was before the write; a read that
\* computed its payload while the write was running leaves no such entry.
C31_NoStaleEntryAfterWrite ==
    /\ redisEnabled
    /\ writes > 0
    /\ \A s \in Slots : api[s].op \notin ApiWrites
    => ~Stale(redis, registry)

\* the case of the switch on action that a collections read selects, named
\* as the payloads are
Branch(action) ==
    IF action \in {<<"structure">>, <<"files">>, <<"file">>, <<"names">>, <<"collection">>}
    THEN action[1]
    ELSE "default"

\* C32 (as claimed): a collections read that is answered from the cache is
\* answered with a payload computed by the case of the switch that its own
\* action selects; requests that select different cases never meet under
\* one cache key.
C32_HitIsOfOwnBranch ==
    /\ answer.pc = "done"
    /\ answer.op = "collectionsGET"
    /\ answer.hit
    => answer.body.kind = Branch(answer.action)

\* ------------------------------------------------- session store properties
\* the entries of a session Map, as a set
Entries(m) == {m[i] : i \in 1..Len(m)}

\* C33: a get of the in-memory store that returns a user returns the user of
\* a stored session whose expiry time is not earlier than the current time,
\* whether or not cleanup has run; and a cleanup removes only sessions whose
\* expiry time is earlier than the current time, and adds none.
C33_ExpiredNeverReturned ==
    [][/\ got'.op = "get" /\ got'.user # "null" =>
             \E e \in Entries(memory) :
                 e.id = got'.id /\ e.user = got'.user /\ ~(e.expiresAt < now)
       /\ got'.op = "cleanup" =>
             /\ \A e \in Entries(memory) : e \notin Entries(memory') => e.expiresAt < now
             /\ Entries(memory') \subseteq Entries(memory)]_vars

\* a get answered null for a session that has expired and is still stored
C33_Witness ==
    /\ got.op = "get"
    /\ got.user = "null"
    /\ \E e \in Entries(memory) : e.id = got.id /\ e.expiresAt < now

\* C34: the in-memory store never holds more than the configured maximum
\* once a set has completed.  A set of a new id into a full store evicts
\* exactly one session, one whose expiry time is the smallest of all, the
\* new session included; any other set evicts none.
C34_SetKeepsWithinMaximum ==
    [][/\ Len(memory') <= MaxSessions
       /\ got'.op = "set" =>
             LET stored == Entry(got'.id, got'.user, now + got'.seconds * 1000)
                 all == {e \in Entries(memory) : e.id # got'.id} \cup {stored}
             IN IF Len(memory) = MaxSessions /\ \A e \in Entries(memory) : e.id # got'.id
                THEN \E e \in all :
                        /\ Entries(memory') = all \ {e}
                        /\ Cardinality(Entries(memory')) = Cardinality(all) - 1
                        /\ \A f \in all : e.expiresAt <= f.expiresAt
                ELSE Entries(memory') = all]_vars

\* a set into a full store after which the store is full and holds other
\* sessions than the one just stored
C34_Witness ==
    /\ got.op = "set"
    /\ Len(memory) = MaxSessions
    /\ \A e \in Entries(memory) : e.id # got.id

\* C35 (as claimed): right after a set(id, user, t) with t > 0 on the
\* in-memory store, get(id) returns that user.
C35_StoredSessionIsReturned ==
    [][got'.op = "set" /\ got'.seconds > 0 =>
          memoryGet(memory', got'.id, now') = got'.user]_vars

\* what get(id) of the optional store returns for these fields
Gettable(init, held, m, id, t) ==
    IF init = "ready" THEN redisGet(held, id, t) ELSE memoryGet(m, id, t)

\* C36 (as claimed): with Redis enabled, a get of the optional store for a
\* session that has been stored and has neither expired nor been deleted
\* (the fallback store, which takes part in every set and every delete,
\* still holds it unexpired) returns its user, however the calls fall around
\* the end of initializeRedis.
C36_StoredSessionSurvivesInit ==
    [][useRedis /\ got'.op = "get" =>
          \A e \in Entries(memory) :
              e.id = got'.id /\ ~(e.expiresAt < now) => got'.user = e.user]_vars

\* C37: when a delete(id) of the optional store completes, get(id) returns
\* null, with or without a RedisSessionStore; and from then on get(id)
\* returns a user again only once a set(id) has completed.
C37_DeletedStaysGone ==
    [][\A id \in Sids :
          /\ got'.op = "delete" /\ got'.id = id =>
                Gettable(redisInit', redisSessions', memory', id, now') = "null"
          /\ /\ Gettable(redisInit, redisSessions, memory, id, now) = "null"
             /\ Gettable(redisInit', redisSessions', memory', id, now') # "null"
             => got'.op = "set" /\ got'.id = id]_vars

\* a delete has completed with the RedisSessionStore in place, and the one
\* session that was ever stored is gone from both stores before its time
C37_Witness ==
    /\ got.op = "delete"
    /\ redisStore
    /\ sets = 1
    /\ ticks = 0
    /\ calls = [s \in Slots |-> IdleCall]
    /\ memory = <<>>
    /\ redisSessions = NoSessions

\* ------------------------------------------------------------- permissions
\* C38: hasPermission answers true exactly when the role holds a permission
\* for the requested action whose contextId is the requested one or
\* 'global'; permissions for other actions grant nothing.
C38_PermissionExactlyWhenHeld ==
    asked.called =>
        LET held == {role[i] : i \in 1..Len(role)}
            granting == {Permission(asked.action, asked.contextId),
                         Permission(asked.action, "global")}
        IN /\ asked.result <=> held \cap granting # {}
           /\ (\A p \in held : p.action # asked.action) => ~asked.result

\* a check granted through a global permission, by a role that also holds
\* a permission for another action
C38_Witness ==
    /\ asked.called
    /\ asked.result
    /\ asked.contextId # "global"
    /\ \E i, j \in 1..Len(role) :
          /\ role[i] = Permission(asked.action, "global")
          /\ role[j].action # asked.action
    /\ \A i \in 1..Len(role) : role[i].contextId # asked.contextId
====
